---- MODULE Spec2Model ----
(***************************************************************************)
(* Command grammar dispatcher: the node tree (tree.ts), the parser, the    *)
(* executor and the suggestion engine (command.ts, suggestions.ts).        *)
(*                                                                         *)
(* Strings are sequences of one-character strings, so that substring,      *)
(* toLowerCase and localeCompare are computed and not assumed.  Nodes live *)
(* in a heap indexed by node id: addChild shares node objects between the  *)
(* tree and the built command it was given, and the model keeps that       *)
(* aliasing.                                                               *)
(***************************************************************************)
EXTENDS Integers, Sequences, FiniteSets, TLC

VARIABLES
    heap,    \* mutable node fields: command, childrenMap, literals, arguments
    nOps,    \* number of tree-mutating calls made so far
    last,    \* the last tree-mutating call, with the heap before it
    trip,    \* the last register(n) immediately followed by unregister(n)
    pr,      \* the last parse: input, source and its ParseResults
    ex,      \* the outcome of executeResults on pr
    sg,      \* the outcome of getCompletionSuggestions on pr
    lit,     \* a literal node under test and the result of isValidInput
    bld,     \* a builder: the calls made on it and the node it built
    fk,      \* the outcome of the fork-capable executeResults on a context chain
    cc,      \* two parse calls in progress and the reader they were both given
    ob,      \* a parse run on builder and reader objects, with what each call saw
    fs,      \* findSuggestionContext on the context of a parse that began at a cursor
    am,      \* the reports of findAmbiguities on the root
    cn       \* dispatcher.consumer: which function is set

vars == <<heap, nOps, last, trip, pr, ex, sg, lit, bld, fk, cc, ob, fs, am, cn>>

(***************************************************************************)
(* Bounds of the exploration.                                              *)
(***************************************************************************)
MaxOps == 4        \* tree-mutating calls per behaviour
MaxWords == 2      \* tokens of a parse input
MaxNameLen == 2    \* characters of a literal name under test
MaxRedirects == 3  \* redirects followed by one parse input
MaxCalls == 3      \* calls on a builder before build()

(***************************************************************************)
(* Strings.                                                                *)
(***************************************************************************)
SP == " "

\* The letters String.prototype.toLowerCase and toUpperCase exchange; every
\* other character is left as it is.
LowerLetters ==
    << "a", "b", "c", "d", "e", "f", "g", "h", "i", "j", "k", "l", "m",
       "n", "o", "p", "q", "r", "s", "t", "u", "v", "w", "x", "y", "z" >>

UpperLetters ==
    << "A", "B", "C", "D", "E", "F", "G", "H", "I", "J", "K", "L", "M",
       "N", "O", "P", "Q", "R", "S", "T", "U", "V", "W", "X", "Y", "Z" >>

\* String.prototype.toLowerCase on one character.
LowerChar(c) ==
    IF \E i \in DOMAIN UpperLetters : UpperLetters[i] = c
    THEN LowerLetters[CHOOSE i \in DOMAIN UpperLetters : UpperLetters[i] = c]
    ELSE c

ToLowerCase(s) == [i \in 1..Len(s) |-> LowerChar(s[i])]

\* String.prototype.toUpperCase on one character.
UpperChar(c) ==
    IF \E i \in DOMAIN LowerLetters : LowerLetters[i] = c
    THEN UpperLetters[CHOOSE i \in DOMAIN LowerLetters : LowerLetters[i] = c]
    ELSE c

ToUpperCase(s) == [i \in 1..Len(s) |-> UpperChar(s[i])]

Min(a, b) == IF a <= b THEN a ELSE b
Max(a, b) == IF a >= b THEN a ELSE b

\* String.prototype.substring(from, to): 0-based, clamped to the string, and the
\* two ends swapped when from > to.
Substring(s, from, to) ==
    LET f == Max(0, Min(from, Len(s)))
        t == Max(0, Min(to, Len(s)))
    IN  SubSeq(s, Min(f, t) + 1, Max(f, t))

StartsWith(s, prefix) ==
    /\ Len(prefix) <= Len(s)
    /\ SubSeq(s, 1, Len(prefix)) = prefix

\* The collation order of the characters in use: space first, then letters,
\* a lowercase letter directly before its uppercase form.
CollationOrder ==
    << " ", "1", "2", "3", "4", "a", "A", "b", "B", "c",
       "C", "d", "D", "e", "E", "f", "F", "g", "G", "h",
       "H", "i", "I", "j", "J", "k", "K", "l", "L", "m",
       "M", "n", "N", "o", "O", "p", "P", "q", "Q", "r",
       "R", "s", "S", "t", "T", "u", "U", "v", "V", "w",
       "W", "x", "X", "y", "Y", "z", "Z" >>

Chars == {CollationOrder[i] : i \in 1..Len(CollationOrder)}

CharRank(c) == CHOOSE i \in 1..Len(CollationOrder) : CollationOrder[i] = c

\* Lexicographic comparison of two sequences of numbers: -1, 0 or 1.
RECURSIVE CompareRanks(_, _)
CompareRanks(a, b) ==
    IF a = <<>> /\ b = <<>> THEN 0
    ELSE IF a = <<>> THEN -1
    ELSE IF b = <<>> THEN 1
    ELSE IF Head(a) < Head(b) THEN -1
    ELSE IF Head(a) > Head(b) THEN 1
    ELSE CompareRanks(Tail(a), Tail(b))

\* String.prototype.localeCompare: the letters decide first (case ignored), the
\* case of the first differing character decides between equal letters.
LocaleCompare(a, b) ==
    LET primary == CompareRanks([i \in 1..Len(a) |-> CharRank(LowerChar(a[i]))],
                                [i \in 1..Len(b) |-> CharRank(LowerChar(b[i]))])
    IN  IF primary # 0 THEN primary
        ELSE CompareRanks([i \in 1..Len(a) |-> CharRank(a[i])],
                          [i \in 1..Len(b) |-> CharRank(b[i])])

\* String.prototype.includes.
Includes(s, sub) ==
    \E i \in 0..(Len(s) - Len(sub)) : SubSeq(s, i + 1, i + Len(sub)) = sub

(***************************************************************************)
(* The nodes.  A node's kind, names, argument type, requirement, redirect  *)
(* and modifier are readonly fields set by its constructor; its command    *)
(* and its three maps are mutable and live in the heap.                    *)
(***************************************************************************)
Root == 1

\* requirement.ts RequirementFailure: undefined is the record with failed = FALSE.
Permitted == [failed |-> FALSE, showInTree |-> FALSE, reason |-> FALSE]
Failure(showInTree, reason) ==
    [failed |-> TRUE, showInTree |-> showInTree, reason |-> reason]

Sources == {1, 2}

\* The requirement predicates given to Builder.requires: each permits source 1
\* and fails source 2, with a reason, silently, or silently but listed.
Requires(kind, source) ==
    IF source = 1 \/ kind = "none" THEN Permitted
    ELSE CASE kind = "deny" -> Failure(FALSE, TRUE)
           [] kind = "hide" -> Failure(FALSE, FALSE)
           [] kind = "show" -> Failure(TRUE, FALSE)

Lit(names, cmd, requires, redirect) ==
    [kind |-> "literal", names |-> names, executes |-> cmd,
     requires |-> requires, redirect |-> redirect, modifier |-> "none"]
Arg(name, cmd, requires) ==
    [kind |-> "argument", names |-> <<name>>, executes |-> cmd,
     requires |-> requires, redirect |-> 0, modifier |-> "none"]

\* The nodes of the exploration: the dispatcher's root and the commands a caller
\* builds, in the shape of the test set-up (a command registered in two parts, a
\* denied command, a command whose only leaf is hidden, a redirect to the root,
\* an argument directly under the root, a command with an alias, a redirect
\* to the root with a modifier, an argument with a suggestion provider that
\* throws, two arguments under the root with a child each, an argument that
\* redirects to the root, a leaf without an executor under a command,
\* a command named with a capital letter, a command named as an argument).
Pool == <<
    [kind |-> "root", names |-> <<<<>>>>, executes |-> FALSE,
     requires |-> "none", redirect |-> 0, modifier |-> "self"], \* 1  <root>
    Lit(<< <<"a">> >>, FALSE, "none", 0),                      \* 2  a
    Lit(<< <<"i">> >>, TRUE, "none", 0),                       \* 3  a i
    Arg(<<"n">>, TRUE, "none"),                                \* 4  a <n>
    Lit(<< <<"a">> >>, TRUE, "none", 0),                       \* 5  a (second part)
    Lit(<< <<"i">> >>, FALSE, "none", 0),                      \* 6  a i
    Lit(<< <<"x">> >>, TRUE, "none", 0),                       \* 7  a i x
    Lit(<< <<"d">> >>, TRUE, "deny", 0),                       \* 8  d
    Lit(<< <<"b">> >>, FALSE, "none", 0),                      \* 9  b
    Lit(<< <<"i">> >>, TRUE, "hide", 0),                       \* 10 b i
    Lit(<< <<"j">> >>, FALSE, "none", Root),                   \* 11 j -> root
    Arg(<<"z">>, TRUE, "none"),                                \* 12 <z>
    Lit(<< <<"h">>, <<"h", "h">> >>, TRUE, "show", 0),         \* 13 h, alias hh
    Arg(<<"y">>, FALSE, "none"),                               \* 14 <y>
    [Lit(<< <<"k">> >>, FALSE, "none", Root)
        EXCEPT !.modifier = "throws"],                         \* 15 k -> root, modifier
    Arg(<<"t">>, FALSE, "none")
        @@ [customSuggestions |-> "throws"],                   \* 16 <t>, suggests()
    Arg(<<"e">>, TRUE, "none"),                                \* 17 <y> <e>
    Lit(<< <<"a">> >>, TRUE, "none", 0),                       \* 18 <z> a
    [Arg(<<"z">>, FALSE, "none") EXCEPT !.redirect = Root],    \* 19 <z> -> root
    Lit(<< <<"x">> >>, FALSE, "none", 0),                      \* 20 d x
    Lit(<< <<"B">> >>, TRUE, "none", 0),                       \* 21 B
    Lit(<< <<"y">> >>, TRUE, "none", 0)                        \* 22 y
>>

NodeIds == 1..Len(Pool)

IsLiteral(n) == Pool[n].kind = "literal"
IsArgument(n) == Pool[n].kind = "argument"
IsRoot(n) == Pool[n].kind = "root"

\* get name(): the literal's first name, the argument's name, '' for the root.
Name(n) == Pool[n].names[1]
\* get sortedKey()
SortedKey(n) == Name(n)
LiteralNames(n) == Pool[n].names
Redirect(n) == Pool[n].redirect
Modifier(n) == Pool[n].modifier
\* customSuggestions: "none" when suggests() was not called on the builder.
CustomSuggestions(n) ==
    IF "customSuggestions" \in DOMAIN Pool[n] THEN Pool[n].customSuggestions ELSE "none"
Requirement(n, source) == Requires(Pool[n].requires, source)

\* The heap of freshly constructed nodes: no children; the command given to
\* executes() is identified by the id of the node it was given to (0: none).
NewHeap ==
    [command |-> [n \in NodeIds |-> IF Pool[n].executes THEN n ELSE 0],
     childrenMap |-> [n \in NodeIds |-> <<>>],
     literals |-> [n \in NodeIds |-> <<>>],
     arguments |-> [n \in NodeIds |-> <<>>]]

(***************************************************************************)
(* tree.ts: CommandNode.  A Map is the sequence of its values in iteration *)
(* order; its keys are the names of the nodes.                             *)
(***************************************************************************)
\* Map.prototype.get(name): the node stored under that key, 0 for undefined.
MapGet(map, name) ==
    IF \E i \in 1..Len(map) : Name(map[i]) = name
    THEN map[CHOOSE i \in 1..Len(map) : Name(map[i]) = name]
    ELSE 0

\* Map.prototype.set(node.name, node): an existing key keeps its place.
MapSet(map, node) ==
    IF \E i \in 1..Len(map) : Name(map[i]) = Name(node)
    THEN [i \in 1..Len(map) |-> IF Name(map[i]) = Name(node) THEN node ELSE map[i]]
    ELSE Append(map, node)

\* Map.prototype.delete(name)
MapDelete(map, name) == SelectSeq(map, LAMBDA m : Name(m) # name)

\* get children()
Children(h, this) == h.childrenMap[this]

GetChild(h, this, name) == MapGet(h.childrenMap[this], name)

\* compareTo: same kind by localeCompare of the sort keys, else literal first.
CompareTo(this, other) ==
    IF IsLiteral(this) = IsLiteral(other)
    THEN LocaleCompare(SortedKey(this), SortedKey(other))
    ELSE IF IsLiteral(other) THEN 1 ELSE -1

\* Array.prototype.sort with compareTo (stable): insertion of each entry in turn
\* after the entries that do not compare greater.
RECURSIVE InsertSorted(_, _)
InsertSorted(sorted, node) ==
    IF sorted = <<>> THEN <<node>>
    ELSE IF CompareTo(Head(sorted), node) <= 0
         THEN <<Head(sorted)>> \o InsertSorted(Tail(sorted), node)
         ELSE <<node>> \o sorted

RECURSIVE SortEntries(_)
SortEntries(map) ==
    IF map = <<>> THEN <<>>
    ELSE InsertSorted(SortEntries(SubSeq(map, 1, Len(map) - 1)), map[Len(map)])

\* removeChild that clears the two indexes and forgets the children map.
RemoveChildIndexOnly(h, this, node) ==
    [h EXCEPT !.literals[this] = IF IsLiteral(node) THEN MapDelete(@, Name(node)) ELSE @,
              !.arguments[this] = IF IsArgument(node) THEN MapDelete(@, Name(node)) ELSE @]

\* removeChild(node)
RemoveChild(h, this, node) ==
    [h EXCEPT !.childrenMap[this] = MapDelete(@, Name(node)),
              !.literals[this] = IF IsLiteral(node) THEN MapDelete(@, Name(node)) ELSE @,
              !.arguments[this] = IF IsArgument(node) THEN MapDelete(@, Name(node)) ELSE @]

\* addChild that leaves the map in insertion order.
AddChildNoSort(map) == map

\* The tail of addChild: this.childrenMap = new Map(entries sorted by compareTo).
AddChildSort(map) == SortEntries(map)

\* addChild that replaces a child of the same name instead of merging into it.
AddChildReplace(h, this, node) ==
    [h EXCEPT
        !.childrenMap[this] = AddChildSort(MapSet(@, node)),
        !.literals[this] = IF IsLiteral(node) THEN MapSet(@, node) ELSE @,
        !.arguments[this] = IF IsArgument(node) THEN MapSet(@, node) ELSE @]

\* addChild(node), for a node that is not a RootCommandNode.
RECURSIVE AddChild(_, _, _)
RECURSIVE AddGrandchildren(_, _, _)
AddChild(h, this, node) ==
    LET child == GetChild(h, this, Name(node))
        h1 == IF child # 0
              THEN AddGrandchildren(
                       IF h.command[node] # 0
                       THEN [h EXCEPT !.command[child] = h.command[node]]
                       ELSE h,
                       child, Children(h, node))
              ELSE [h EXCEPT
                       !.childrenMap[this] = MapSet(@, node),
                       !.literals[this] = IF IsLiteral(node) THEN MapSet(@, node) ELSE @,
                       !.arguments[this] = IF IsArgument(node) THEN MapSet(@, node) ELSE @]
    IN  [h1 EXCEPT !.childrenMap[this] = AddChildSort(@)]

\* for (let grandchild of node.children) child.addChild(grandchild)
AddGrandchildren(h, child, grandchildren) ==
    IF grandchildren = <<>> THEN h
    ELSE AddGrandchildren(AddChild(h, child, Head(grandchildren)),
                          child, Tail(grandchildren))

(***************************************************************************)
(* builder.ts: thenLiteral/thenArgument add the built child to the         *)
(* builder's node list with addChild, and build() adds each of them to the *)
(* node it constructs.                                                     *)
(***************************************************************************)
\* <<parent, child>> in the order of the builder calls.
BuildPlan == <<
    <<2, 3>>, <<2, 4>>,      \* command("a").thenLiteral("i").thenArgument("n")
    <<6, 7>>, <<5, 6>>,      \* command("a").executes().thenLiteral("i", thenLiteral("x"))
    <<9, 10>>,               \* command("b").thenLiteral("i", requires().executes())
    <<14, 17>>,              \* argument("y").thenArgument("e", executes())
    <<12, 18>>,              \* argument("z").executes().thenLiteral("a", executes())
    <<8, 20>>                \* command("d").requires().executes().thenLiteral("x")
>>

\* The children handed to the builder of one node, in the order of its
\* thenLiteral/thenArgument calls.
RECURSIVE ThenCalls(_, _)
ThenCalls(plan, this) ==
    IF plan = <<>> THEN <<>>
    ELSE IF Head(plan)[1] = this
         THEN <<Head(plan)[2]>> \o ThenCalls(Tail(plan), this)
         ELSE ThenCalls(Tail(plan), this)

\* One builder: every then call adds the built child to the builder's own
\* list (this.arguments, a node whose maps start empty, kept here in the slot
\* of the node under construction), and build() constructs the node and adds
\* the children of that list to it, in the sorted order the list keeps.
BuildNode(h, this, thens) ==
    LET listed == AddGrandchildren(h, this, thens)
        argumentList == Children(listed, this)
        result == [listed EXCEPT !.childrenMap[this] = <<>>,
                                 !.literals[this] = <<>>,
                                 !.arguments[this] = <<>>]
    IN  AddGrandchildren(result, this, argumentList)

\* The builders of a plan, each run when its last then call has been made: a
\* child's builder is complete before the child is handed to its parent's.
RECURSIVE Build(_, _)
Build(h, plan) ==
    IF plan = <<>> THEN h
    ELSE LET i == CHOOSE k \in 1..Len(plan) :
                      /\ \A j \in (k + 1)..Len(plan) : plan[j][1] # plan[k][1]
                      /\ \A m \in 1..(k - 1) :
                             \E j \in (m + 1)..Len(plan) : plan[j][1] = plan[m][1]
             this == plan[i][1]
             rest == SelectSeq(plan, LAMBDA pair : pair[1] # this)
         IN  Build(BuildNode(h, this, ThenCalls(plan, this)), rest)

BuiltHeap == Build(NewHeap, BuildPlan)

\* The commands a caller registers: the nodes returned by build().
Commands == {2, 5, 8, 9, 11, 12, 13, 14, 22}

\* command.build() of a builder that has built before: a new node with the
\* builder's command and the children of the builder's list.  Those children
\* were built when then was called, and are in the state the tree has left
\* them in.
CommandBuild(h, command) ==
    [h EXCEPT !.command[command] = NewHeap.command[command],
              !.childrenMap[command] = BuiltHeap.childrenMap[command],
              !.literals[command] = BuiltHeap.literals[command],
              !.arguments[command] = BuiltHeap.arguments[command]]

\* dispatcher.register(command): the node is built anew from the builder and
\* added to the root.  Added as a new child it is the node the caller holds
\* from then on; merged into a child of its name it is read and dropped, and
\* the node built before stays what it was.
RegisterBuilder(h, command) ==
    LET build == CommandBuild(h, command)
        child == GetChild(h, Root, Name(command))
    IN  IF child = 0 THEN AddChild(build, Root, command)
        ELSE [AddGrandchildren(
                  IF build.command[command] # 0
                  THEN [h EXCEPT !.command[child] = build.command[command]]
                  ELSE h,
                  child, Children(build, command))
                EXCEPT !.childrenMap[Root] = AddChildSort(@)]

\* dispatcher.registerBuilt(command)
RegisterBuilt(h, command) == AddChild(h, Root, command)
\* dispatcher.unregister(command)
UnregisterBuilt(h, command) == RemoveChild(h, Root, command)

RECURSIVE RegisterAll(_, _)
RegisterAll(h, commands) ==
    IF commands = <<>> THEN h
    ELSE RegisterAll(RegisterBuilder(h, Head(commands)), Tail(commands))

(***************************************************************************)
(* The tree under construction: register and unregister in any order.      *)
(***************************************************************************)
NoCall == [op |-> "none", node |-> 0, pre |-> NewHeap, given |-> NewHeap]
NoTrip == [valid |-> FALSE, node |-> 0, pre |-> NewHeap]
NoParse == [phase |-> "idle"]
NoOutcome == [done |-> FALSE]

InitTree ==
    /\ heap = BuiltHeap
    /\ nOps = 0
    /\ last = NoCall
    /\ trip = NoTrip
    /\ pr = NoParse
    /\ ex = NoOutcome
    /\ sg = NoOutcome
    /\ lit = NoOutcome
    /\ bld = NoOutcome
    /\ fk = NoOutcome
    /\ cc = NoOutcome
    /\ ob = NoOutcome
    /\ fs = NoOutcome
    /\ am = NoOutcome
    /\ cn = NoOutcome

\* dispatcher.register(builder of n); `given` is the heap with the node that
\* was given to addChild in it.
Register(n) ==
    /\ nOps < MaxOps
    /\ heap' = RegisterBuilder(heap, n)
    /\ nOps' = nOps + 1
    /\ last' = [op |-> "register", node |-> n, pre |-> heap,
                given |-> CommandBuild(heap, n)]
    /\ trip' = NoTrip
    /\ UNCHANGED <<pr, ex, sg, lit, bld, fk, cc, ob, fs, am, cn>>

\* dispatcher.registerBuilt(n), with the node n the caller holds.
DoRegisterBuilt(n) ==
    /\ nOps < MaxOps
    /\ heap' = RegisterBuilt(heap, n)
    /\ nOps' = nOps + 1
    /\ last' = [op |-> "register", node |-> n, pre |-> heap, given |-> heap]
    /\ trip' = NoTrip
    /\ UNCHANGED <<pr, ex, sg, lit, bld, fk, cc, ob, fs, am, cn>>

Unregister(n) ==
    /\ nOps < MaxOps
    /\ heap' = UnregisterBuilt(heap, n)
    /\ nOps' = nOps + 1
    /\ last' = [op |-> "unregister", node |-> n, pre |-> heap, given |-> heap]
    /\ trip' = IF last.op = "register" /\ last.node = n
               THEN [valid |-> TRUE, node |-> n, pre |-> last.pre]
               ELSE NoTrip
    /\ UNCHANGED <<pr, ex, sg, lit, bld, fk, cc, ob, fs, am, cn>>

NextTree ==
    \/ \E n \in Commands : Register(n)
    \/ \E n \in Commands : DoRegisterBuilt(n)
    \/ \E n \in Commands : Unregister(n)

SpecTree == InitTree /\ [][NextTree]_vars

(***************************************************************************)
(* The tree as a value, for comparing trees: what a walk from a node sees. *)
(***************************************************************************)
\* Children in enumeration order.
RECURSIVE Shape(_, _)
Shape(h, n) ==
    [name |-> Name(n), kind |-> Pool[n].kind, command |-> h.command[n],
     children |-> [i \in 1..Len(Children(h, n)) |-> Shape(h, Children(h, n)[i])]]

\* Children by name, whatever their order.
RECURSIVE Grammar(_, _)
Grammar(h, n) ==
    [name |-> Name(n), kind |-> Pool[n].kind, command |-> h.command[n],
     children |-> [nm \in {Name(Children(h, n)[i]) : i \in 1..Len(Children(h, n))} |->
                      Grammar(h, GetChild(h, n, nm))]]

\* The union of two grammars of the same name: children by name, a child of both
\* merged in the same way, the newer command when there is one.
RECURSIVE MergedGrammar(_, _)
MergedGrammar(old, new) ==
    [name |-> old.name, kind |-> old.kind,
     command |-> IF new.command # 0 THEN new.command ELSE old.command,
     children |-> [nm \in DOMAIN old.children \cup DOMAIN new.children |->
                      IF nm \in DOMAIN old.children /\ nm \in DOMAIN new.children
                      THEN MergedGrammar(old.children[nm], new.children[nm])
                      ELSE IF nm \in DOMAIN old.children THEN old.children[nm]
                      ELSE new.children[nm]]]

NamesOf(map) == {Name(map[i]) : i \in 1..Len(map)}

\* The last call was a register whose name the root already had: a merge.
LastMerged ==
    /\ last.op = "register"
    /\ GetChild(last.pre, Root, Name(last.node)) # 0

\* C3 as claimed: register(n) followed by unregister(n) leaves the tree
\* structurally equal to the tree before the register, whatever the tree was,
\* also when the root already had a child of n's name.
C3_RegisterUnregisterRestores ==
    trip.valid => Shape(heap, Root) = Shape(trip.pre, Root)

\* C3 amended: register(n) followed by unregister(n) restores the tree (same
\* children per node, same executors, same order) when the root had no child of
\* n's name before the register.
C3_RestoresWhenNotMerged ==
    (trip.valid /\ GetChild(trip.pre, Root, Name(trip.node)) = 0)
        => Shape(heap, Root) = Shape(trip.pre, Root)

\* A register of a new name into a root that has children, undone at once.
C3_Witness ==
    /\ trip.valid
    /\ GetChild(trip.pre, Root, Name(trip.node)) = 0
    /\ Len(Children(trip.pre, Root)) >= 1
    /\ Len(Children(heap, Root)) >= 1

\* C4: addChild(node) onto a child of the same name merges: the existing child
\* stays, the parent has exactly one child of that name, and the child's
\* grammar is the union by name of its old children and node's children, merged
\* recursively, with node's executor when node has one and its own otherwise.
C4_AddChildMerges ==
    LastMerged =>
        LET child == GetChild(last.pre, Root, Name(last.node))
        IN  /\ GetChild(heap, Root, Name(last.node)) = child
            /\ Cardinality({i \in 1..Len(Children(heap, Root)) :
                              Name(Children(heap, Root)[i]) = Name(last.node)}) = 1
            /\ Grammar(heap, child) =
                   MergedGrammar(Grammar(last.pre, child), Grammar(last.given, last.node))

\* A merge of two different nodes that share a child name, where the incoming
\* node also brings a child name the existing child lacks.
C4_Witness ==
    /\ LastMerged
    /\ LET child == GetChild(last.pre, Root, Name(last.node))
           old == NamesOf(Children(last.pre, child))
           new == NamesOf(Children(last.given, last.node))
       IN  /\ child # last.node
           /\ old \cap new # {}
           /\ new \ old # {}

\* C5: the children enumeration of every node has at most one child per name,
\* every literal child before every argument child, and each kind ascending by
\* sortedKey.
C5_ChildrenSorted ==
    \A this \in NodeIds :
        LET c == Children(heap, this)
        IN  \A i, k \in 1..Len(c) :
                i < k =>
                    /\ Name(c[i]) # Name(c[k])
                    /\ ~(IsArgument(c[i]) /\ IsLiteral(c[k]))
                    /\ (IsLiteral(c[i]) = IsLiteral(c[k])
                            => LocaleCompare(SortedKey(c[i]), SortedKey(c[k])) < 0)

\* A literal registered after an argument and after a literal of a greater name:
\* the insertion order is not the sorted order.
C5_Witness ==
    /\ last.op = "register"
    /\ IsLiteral(last.node)
    /\ ~LastMerged
    /\ \E i \in 1..Len(Children(last.pre, Root)) :
           IsArgument(Children(last.pre, Root)[i])
    /\ \E i \in 1..Len(Children(last.pre, Root)) :
           /\ IsLiteral(Children(last.pre, Root)[i])
           /\ LocaleCompare(Name(last.node), Name(Children(last.pre, Root)[i])) < 0

(***************************************************************************)
(* The reader: an immutable string and a cursor (0-based).                 *)
(***************************************************************************)
\* canRead(length)
CanRead(string, cursor, length) == cursor + length <= Len(string)
\* canReadAnything
CanReadAnything(string, cursor) == CanRead(string, cursor, 1)
\* peek()
Peek(string, cursor) == string[cursor + 1]

\* The cursor after skipping up to the next space or the end of the input.
RECURSIVE SkipToSpace(_, _)
SkipToSpace(string, cursor) ==
    IF CanReadAnything(string, cursor) /\ Peek(string, cursor) # SP
    THEN SkipToSpace(string, cursor + 1)
    ELSE cursor

(***************************************************************************)
(* tree.ts: LiteralCommandNode.                                            *)
(***************************************************************************)
\* isMe(name)
IsMe(literalNames, name) ==
    \E i \in 1..Len(literalNames) : literalNames[i] = ToLowerCase(name)

\* _parse(reader): the end of the first name that the input, lowercased, equals
\* at the cursor and that is followed by the end of input or a space; else -1.
RECURSIVE Literal_parse(_, _, _)
Literal_parse(literalNames, string, start) ==
    IF literalNames = <<>> THEN -1
    ELSE LET literal == Head(literalNames)
             end == start + Len(literal)
         IN  IF /\ CanRead(string, start, Len(literal))
                /\ ToLowerCase(Substring(string, start, end)) = literal
                /\ (~CanReadAnything(string, end) \/ Peek(string, end) = SP)
             THEN end
             ELSE Literal_parse(Tail(literalNames), string, start)

\* isValidInput(input)
LiteralIsValidInput(literalNames, input) == Literal_parse(literalNames, input, 0) > -1

(***************************************************************************)
(* A literal node built with any names, asked about its own names.         *)
(***************************************************************************)
NameChars == {"a", "A", "b"}

\* All strings over NameChars of 1..n characters.
RECURSIVE NamesUpTo(_)
NamesUpTo(n) ==
    IF n = 0 THEN {}
    ELSE LET shorter == NamesUpTo(n - 1)
         IN  {<<c>> : c \in NameChars} \cup shorter
                \cup {Append(w, c) : w \in shorter, c \in NameChars}

Extra == <<" ", "e", "x", "t", "r", "a">>

InitLiteral ==
    /\ heap = NewHeap
    /\ nOps = 0
    /\ last = NoCall
    /\ trip = NoTrip
    /\ pr = NoParse
    /\ ex = NoOutcome
    /\ sg = NoOutcome
    /\ lit = NoOutcome
    /\ bld = NoOutcome
    /\ fk = NoOutcome
    /\ cc = NoOutcome
    /\ ob = NoOutcome
    /\ fs = NoOutcome
    /\ am = NoOutcome
    /\ cn = NoOutcome

\* new LiteralCommandNode([name, alias]).isValidInput(m) and
\* .isValidInput(m + " extra") for one of its names m.
AskValidInput ==
    /\ ~lit.done
    /\ \E name \in NamesUpTo(MaxNameLen), alias \in NamesUpTo(MaxNameLen) \cup {<<>>},
          k \in 1..2 :
          LET literalNames == IF alias = <<>> THEN <<name>> ELSE <<name, alias>>
          IN  /\ k <= Len(literalNames)
              /\ lit' = [done |-> TRUE,
                         literalNames |-> literalNames,
                         m |-> literalNames[k],
                         alone |-> LiteralIsValidInput(literalNames, literalNames[k]),
                         extra |-> LiteralIsValidInput(literalNames,
                                                       literalNames[k] \o Extra)]
    /\ UNCHANGED <<heap, nOps, last, trip, pr, ex, sg, bld, fk, cc, ob, fs, am, cn>>

NextLiteral == AskValidInput

SpecLiteral == InitLiteral /\ [][NextLiteral]_vars

\* C7 as claimed: for every literal node and each of its names m, whatever the
\* letter case the names were registered with, isValidInput(m) and
\* isValidInput(m + " extra") are true.
C7_OwnNamesAreValid ==
    lit.done => (lit.alone /\ lit.extra)

(***************************************************************************)
(* tree.ts: checkRequirement and getRelevant.                              *)
(***************************************************************************)
\* The result of a call that returned, and of one whose recursion never ends
\* (a redirect cycle): the engine throws a stack overflow out of the call.
Returned(failure) == [overflow |-> FALSE, failure |-> failure]
StackOverflow == [overflow |-> TRUE, failure |-> Permitted]

\* checkRequirement(source).  `active` holds the nodes whose call is on the stack:
\* the function is deterministic, so a call on one of them recurses for ever.
RECURSIVE CheckRequirementFrom(_, _, _, _)
RECURSIVE CheckChildren(_, _, _, _)
CheckRequirementFrom(h, this, source, active) ==
    IF this \in active THEN StackOverflow
    ELSE IF Requirement(this, source).failed THEN Returned(Requirement(this, source))
    ELSE IF h.command[this] # 0 THEN Returned(Permitted)
    ELSE LET viaRedirect ==
                 IF Redirect(this) # 0
                 THEN CheckRequirementFrom(h, Redirect(this), source, active \cup {this})
                 ELSE Returned(Failure(FALSE, FALSE))
         IN  IF viaRedirect.overflow THEN StackOverflow
             ELSE IF Redirect(this) # 0 /\ ~viaRedirect.failure.failed
                  THEN Returned(Permitted)
                  ELSE CheckChildren(h, Children(h, this), source, active \cup {this})

\* for (let child of this.children) ...; falling off the loop returns undefined.
CheckChildren(h, children, source, active) ==
    IF children = <<>> THEN Returned(Permitted)
    ELSE LET first == CheckRequirementFrom(h, Head(children), source, active)
         IN  IF first.overflow THEN StackOverflow
             ELSE IF ~first.failure.failed THEN Returned(Permitted)
             ELSE CheckChildren(h, Tail(children), source, active)

CheckRequirement(h, this, source) == CheckRequirementFrom(h, this, source, {})

\* getRelevant(input): the first literal child that the token at the cursor
\* names, else the argument children; the reader's cursor is put back.
GetRelevant(h, this, string, cursor) ==
    IF Len(h.literals[this]) > 0
    THEN LET text == Substring(string, cursor, SkipToSpace(string, cursor))
             matching == SelectSeq(h.literals[this],
                                   LAMBDA l : IsMe(LiteralNames(l), text))
         IN  IF matching # <<>> THEN <<matching[1]>> ELSE h.arguments[this]
    ELSE h.arguments[this]

(***************************************************************************)
(* range.ts: StringRange.                                                  *)
(***************************************************************************)
Between(start, end) == [start |-> start, end |-> end]
At(pos) == Between(pos, pos)
Encompassing(a, b) == Between(Min(a.start, b.start), Max(a.end, b.end))
RangeIsEmpty(range) == range.start = range.end

(***************************************************************************)
(* command.ts: CommandContextBuilder.  The optional child is a sequence of *)
(* no or one builder; the command is the id of the executor, 0 for none;   *)
(* the modifier is named by the node it came from, 0 for none.             *)
(***************************************************************************)
\* new CommandContextBuilder(dispatcher, source, rootNode, start)
NewContext(source, rootNode, start) ==
    [source |-> source, rootNode |-> rootNode, args |-> <<>>, nodes |-> <<>>,
     command |-> 0, child |-> <<>>, range |-> At(start), modifier |-> 0]

\* copy(): everything but the modifier.
Copy(context) ==
    [NewContext(context.source, context.rootNode, context.range.start) EXCEPT
        !.command = context.command,
        !.args = context.args,
        !.nodes = context.nodes,
        !.child = context.child,
        !.range = context.range]

\* withNode(node, range)
WithNode(context, node, range) ==
    [context EXCEPT
        !.nodes = Append(@, [node |-> node, range |-> range]),
        !.range = Encompassing(@, range),
        !.modifier = IF Modifier(node) = "none" THEN 0 ELSE node]

\* A withCommand that keeps the selected executor when the node has none.
WithCommandKept(context, command) ==
    IF command = 0 THEN context ELSE [context EXCEPT !.command = command]

\* withArgument(name, parsed): Map.set on the argument map.
WithArgument(context, name, parsed) ==
    [context EXCEPT
        !.args = IF \E i \in 1..Len(@) : @[i].name = name
                 THEN [i \in 1..Len(@) |->
                          IF @[i].name = name
                          THEN [name |-> name, range |-> parsed.range,
                                result |-> parsed.result]
                          ELSE @[i]]
                 ELSE Append(@, [name |-> name, range |-> parsed.range,
                                 result |-> parsed.result])]

WithCommand(context, command) == [context EXCEPT !.command = command]
WithChild(context, child) == [context EXCEPT !.child = <<child>>]

(***************************************************************************)
(* The argument type of the test set-up: a name of 4 to 16 characters,     *)
(* lowercased by parse; load rejects a name that contains "fail".          *)
(***************************************************************************)
UserMinLength == 4
UserMaxLength == 16
FailWord == <<"f", "a", "i", "l">>

\* reader.readString() on an unquoted word: up to the next space.
ReadString(string, cursor) ==
    [text |-> Substring(string, cursor, SkipToSpace(string, cursor)),
     cursor |-> SkipToSpace(string, cursor)]

Thrown(name, cursor) == [ok |-> FALSE, error |-> [name |-> name, at |-> cursor]]

\* type.parse(ctx, reader) followed by await type.load(parsed)
UserParseAndLoad(string, cursor) ==
    LET read == ReadString(string, cursor)
        name == read.text
    IN  IF Len(name) < UserMinLength \/ Len(name) > UserMaxLength
        THEN Thrown("Not a user", read.cursor)
        ELSE IF Includes(ToLowerCase(name), FailWord)
        THEN Thrown("Planned failure", read.cursor)
        ELSE [ok |-> TRUE, cursor |-> read.cursor,
              result |-> ToUpperCase(ToLowerCase(name))]

\* get examples()
UserExamples == <<
    <<"u", "s", "e", "r", "1">>, <<"u", "s", "e", "r", "2">>,
    <<"u", "s", "e", "r", "3">>, <<"u", "s", "e", "r", "4">>,
    <<"a", "n", "o", "t", "h", "e", "r", "u", "s", "e", "r", "1">>,
    <<"a", "n", "o", "t", "h", "e", "r", "u", "s", "e", "r", "2">>
>>

(***************************************************************************)
(* tree.ts: parse of a literal and of an argument node, and the separator  *)
(* check that parseNodes makes in the same try block.                      *)
(***************************************************************************)
\* A range that always starts at the beginning of the input.
NodeRangeFromZero(start, end) == Between(0, end)

\* StringRange.between(start, reader.cursor) in the parse of a node.
NodeRange(start, end) == Between(start, end)

\* child.parse(ctx, reader, context): the context and cursor afterwards, or the
\* error thrown.
NodeParse(child, string, cursor, context) ==
    IF IsLiteral(child)
    THEN LET end == Literal_parse(LiteralNames(child), string, cursor)
         IN  IF end > -1
             THEN [ok |-> TRUE, cursor |-> end,
                   context |-> WithNode(context, child, NodeRange(cursor, end))]
             ELSE Thrown("LiteralError", cursor)
    ELSE LET loaded == UserParseAndLoad(string, cursor)
         IN  IF loaded.ok
             THEN LET parsed == [range |-> NodeRange(cursor, loaded.cursor),
                                 result |-> loaded.result]
                  IN  [ok |-> TRUE, cursor |-> loaded.cursor,
                       context |-> WithNode(WithArgument(context, Name(child), parsed),
                                            child, parsed.range)]
             ELSE loaded

\* The try block of parseNodes: child.parse, then the next character, if any,
\* must be the argument separator.
TryParse(child, string, cursor, context) ==
    LET parsed == NodeParse(child, string, cursor, context)
    IN  IF ~parsed.ok THEN parsed
        ELSE IF CanReadAnything(string, parsed.cursor) /\ Peek(string, parsed.cursor) # SP
        THEN Thrown("ExpectedArgumentSeparatorError", parsed.cursor)
        ELSE parsed

(***************************************************************************)
(* command.ts: parse and parseNodes.  A ParseResults is a context builder, *)
(* the reader's cursor and the error map (a Map in insertion order, keyed  *)
(* by child node); thrown is set when checkRequirement overflowed the      *)
(* stack, which no handler of parseNodes catches.                          *)
(***************************************************************************)
ParseResults(context, reader, exceptions) ==
    [thrown |-> FALSE, context |-> context, reader |-> reader,
     exceptions |-> exceptions]

ParseThrown(context, reader) ==
    [thrown |-> TRUE, context |-> context, reader |-> reader, exceptions |-> <<>>]

\* An error map that forgets what the earlier siblings recorded.
ErrorsSetAlone(errors, child, error) == <<[node |-> child, error |-> error]>>

\* errors.set(child, error)
ErrorsSet(errors, child, error) ==
    IF \E i \in 1..Len(errors) : errors[i].node = child
    THEN [i \in 1..Len(errors) |->
             IF errors[i].node = child THEN [node |-> child, error |-> error]
             ELSE errors[i]]
    ELSE Append(errors, [node |-> child, error |-> error])

\* The comparator of potentials.sort: no leftover input first, then no errors.
ComparePotentials(string, a, b) ==
    IF ~CanReadAnything(string, a.reader) /\ CanReadAnything(string, b.reader) THEN -1
    ELSE IF CanReadAnything(string, a.reader) /\ ~CanReadAnything(string, b.reader) THEN 1
    ELSE IF Len(a.exceptions) = 0 /\ Len(b.exceptions) # 0 THEN -1
    ELSE IF Len(a.exceptions) # 0 /\ Len(b.exceptions) = 0 THEN 1
    ELSE 0

\* Array.prototype.sort (stable) with that comparator.
RECURSIVE InsertPotential(_, _, _)
InsertPotential(string, sorted, p) ==
    IF sorted = <<>> THEN <<p>>
    ELSE IF ComparePotentials(string, Head(sorted), p) <= 0
         THEN <<Head(sorted)>> \o InsertPotential(string, Tail(sorted), p)
         ELSE <<p>> \o sorted

\* A sort that leaves the potentials in attempt order.
SortPotentialsNone(string, potentials) == potentials

RECURSIVE SortPotentials(_, _)
SortPotentials(string, potentials) ==
    IF potentials = <<>> THEN <<>>
    ELSE InsertPotential(string,
                         SortPotentials(string, SubSeq(potentials, 1, Len(potentials) - 1)),
                         potentials[Len(potentials)])

\* The element of a set of one: {e(x) : x \in {v}} names a value that is
\* worked out once, such as the result of an awaited call.
The(set) == CHOOSE x \in set : TRUE

\* parseNodes(ctx, node, originalReader, contextSoFar).  ParseLoop is the for loop
\* from the child at the head of `relevant`, with the errors and potentials so far.
RECURSIVE ParseNodes(_, _, _, _, _)
RECURSIVE ParseLoop(_, _, _, _, _, _, _, _)
ParseNodes(h, node, string, cursor, contextSoFar) ==
    ParseLoop(h, node, string, cursor, contextSoFar,
              GetRelevant(h, node, string, cursor), <<>>, <<>>)

ParseLoop(h, node, string, cursor, contextSoFar, relevant, errors, potentials) ==
    IF relevant = <<>>
    THEN IF potentials # <<>>
         THEN SortPotentials(string, potentials)[1]
         ELSE ParseResults(contextSoFar, cursor, errors)
    ELSE
    LET child == Head(relevant)
        source == contextSoFar.source
        checked == CheckRequirement(h, child, source)
        failure == checked.failure
        errors1 == IF failure.failed
                   THEN ErrorsSet(errors, child,
                                  [name |-> "RequirementFailedError", at |-> cursor])
                   ELSE errors
        tried == TryParse(child, string, cursor, Copy(contextSoFar))
        context == WithCommand(tried.context, h.command[child])
        reader == tried.cursor
    IN  IF checked.overflow THEN ParseThrown(contextSoFar, cursor)
        ELSE IF failure.failed /\ ~failure.reason
        THEN ParseLoop(h, node, string, cursor, contextSoFar,
                       Tail(relevant), errors, potentials)
        ELSE IF ~tried.ok
        THEN ParseLoop(h, node, string, cursor, contextSoFar, Tail(relevant),
                       ErrorsSet(errors1, child, tried.error), potentials)
        ELSE IF ~CanRead(string, reader, IF Redirect(child) = 0 THEN 2 ELSE 1)
        THEN ParseLoop(h, node, string, cursor, contextSoFar, Tail(relevant), errors1,
                       Append(potentials, ParseResults(context, reader, <<>>)))
        ELSE IF Redirect(child) # 0
        THEN The({IF parse.thrown THEN parse
                  ELSE ParseResults(WithChild(context, parse.context),
                                    parse.reader, parse.exceptions) :
                    parse \in {ParseNodes(h, Redirect(child), string, reader + 1,
                                          NewContext(source, Redirect(child),
                                                     reader + 1))}})
        ELSE The({IF parse.thrown THEN parse
                  ELSE ParseLoop(h, node, string, cursor, contextSoFar,
                                 Tail(relevant), errors1, Append(potentials, parse)) :
                    parse \in {ParseNodes(h, child, string, reader + 1, context)}})

\* parse(ctx, command, source)
Parse(h, command, source) ==
    ParseNodes(h, Root, command, 0, NewContext(source, Root, 0))

(***************************************************************************)
(* A parse call as the event loop runs it: in turns, each from one await   *)
(* to the next, with other work of the program free to run in between.     *)
(* Readers and context builders are objects.  Reader 0 is a StringReader   *)
(* that the caller passed, reader k > 0 is the k-th reader that the call   *)
(* created itself (new StringReader(command) or clone()).  Builder k is    *)
(* the k-th CommandContextBuilder that the call created (new or copy());   *)
(* the child of a builder is the id of a builder.  Until the call settles  *)
(* only its own locals refer to these builders and to the readers k > 0.   *)
(* A machine is one call together with the cursor of reader 0.  The log of *)
(* a call keeps, for every parseNodes call that returned, what             *)
(* contextSoFar and the original reader were on entry and on return, and,  *)
(* for every attempt, the copy it started from.                            *)
(***************************************************************************)
Idle == [phase |-> "idle"]

ReaderCursor(m, reader) ==
    IF reader = 0 THEN m.shared ELSE m.call.readers[reader]

SetReaderCursor(m, reader, cursor) ==
    IF reader = 0 THEN [m EXCEPT !.shared = cursor]
    ELSE [m EXCEPT !.call.readers[reader] = cursor]

\* A reader that is handed on instead of being cloned.
ReaderSame(reader, fresh) == reader

\* originalReader.clone(): a new reader object.
ReaderClone(reader, fresh) == fresh

\* new CommandContextBuilder(...): the machine afterwards and the new builder.
StoreContext(m, context) ==
    [store |-> [m EXCEPT !.call.contexts = Append(@, context)],
     id |-> Len(m.call.contexts) + 1]

\* A copy() that hands back the builder it was called on.
ContextCopyAliased(m, id) == [store |-> m, id |-> id]

\* contextSoFar.copy(): a new builder with its own argument map and node list.
ContextCopy(m, id) == StoreContext(m, Copy(m.call.contexts[id]))

\* The builder as a value, its chain of children included.
RECURSIVE ContextOf(_, _)
ContextOf(m, id) ==
    LET context == m.call.contexts[id]
    IN  IF context.child = <<>> THEN context
        ELSE [context EXCEPT !.child = <<ContextOf(m, context.child[1])>>]

\* What a parseNodes call was given, as it was on entry.
Entry(m, contextSoFar, originalReader) ==
    [id |-> contextSoFar, context |-> m.call.contexts[contextSoFar],
     reader |-> originalReader, cursor |-> ReaderCursor(m, originalReader)]

\* The same objects as they are when the call returns.
LogReturn(m, entry) ==
    [m EXCEPT !.call.log = Append(@, [kind |-> "call", entry |-> entry,
                                      context |-> m.call.contexts[entry.id],
                                      cursor |-> ReaderCursor(m, entry.reader)])]

\* The copy an attempt starts from.
LogAttempt(m, entry, child, context) ==
    [m EXCEPT !.call.log = Append(@, [kind |-> "attempt", entry |-> entry,
                                      node |-> child,
                                      context |-> m.call.contexts[context]])]

NoPending ==
    [at |-> "none", context |-> 0, rd |-> 0, start |-> 0, failed |-> <<>>,
     name |-> <<>>, parse |-> <<>>]

\* The locals of one parseNodes call: its arguments, the source and the cursor
\* read on entry, the children still to try (the one being tried first),
\* errors, potentials, and what it awaits.
Frame(m, node, reader, contextSoFar, relevant) ==
    [node |-> node, reader |-> reader, cursor |-> ReaderCursor(m, reader),
     contextSoFar |-> contextSoFar, source |-> m.call.contexts[contextSoFar].source,
     entry |-> Entry(m, contextSoFar, reader),
     relevant |-> relevant, errors |-> <<>>, potentials |-> <<>>,
     pending |-> NoPending]

TopFrame(m) == m.call.stack[Len(m.call.stack)]
SetTopFrame(m, f) == [m EXCEPT !.call.stack[Len(m.call.stack)] = f]

\* What a parseNodes call settles with: a ParseResults whose context and
\* reader are objects, or the error of a checkRequirement that overflowed the
\* stack.
Returning(context, reader, exceptions) ==
    [thrown |-> FALSE, context |-> context, ref |-> reader, exceptions |-> exceptions]
Rejecting(context, cursor) ==
    [thrown |-> TRUE, context |-> context, cursor |-> cursor]

\* What a settled parseNodes call reads as now.
ResultView(m, r) ==
    IF r.thrown THEN ParseThrown(ContextOf(m, r.context), r.cursor)
    ELSE ParseResults(ContextOf(m, r.context), ReaderCursor(m, r.ref), r.exceptions)

\* The parseNodes call on top settles: the frame that awaits it, or parse when
\* it is the first parseNodes call, goes on in a later turn.
ReturnFrom(m, r) ==
    LET depth == Len(m.call.stack)
    IN  IF depth = 1
        THEN [m EXCEPT !.call.stack = <<>>, !.call.phase = "returning",
                       !.call.result = r]
        ELSE [m EXCEPT !.call.stack =
                 [SubSeq(@, 1, depth - 1) EXCEPT ![depth - 1].pending.parse = <<r>>]]

\* After the for loop of parseNodes.
AfterLoop(m, string) ==
    LET f == TopFrame(m)
        views == [i \in 1..Len(f.potentials) |->
                     [reader |-> ReaderCursor(m, f.potentials[i].ref),
                      exceptions |-> f.potentials[i].exceptions, index |-> i]]
        first == f.potentials[SortPotentials(string, views)[1].index]
    IN  IF f.potentials # <<>>
        THEN ReturnFrom(LogReturn(m, f.entry), first)
        ELSE ReturnFrom(LogReturn(m, f.entry),
                        Returning(f.contextSoFar, f.reader, f.errors))

\* The for loop of parseNodes from its head, up to the next await: the
\* requirement check, the copies, and the part of child.parse that runs
\* before it awaits.  A literal's parse is a plain function: what it throws
\* is caught at once, and what it returns is awaited.  An argument's
\* type.parse that throws rejects the argument's parse, so parseNodes awaits
\* the settled child.parse; an argument's parse that called type.load awaits
\* the load.
RECURSIVE RunLoop(_, _)
RunLoop(h, m) ==
    LET f == TopFrame(m)
        string == m.call.input
    IN  IF f.relevant = <<>> THEN AfterLoop(m, string)
        ELSE
        LET child == Head(f.relevant)
            checked == CheckRequirement(h, child, f.source)
            failure == checked.failure
            errors1 == IF failure.failed
                       THEN ErrorsSet(f.errors, child,
                                      [name |-> "RequirementFailedError", at |-> f.cursor])
                       ELSE f.errors
            copied == ContextCopy(m, f.contextSoFar)
            context == copied.id
            fresh == Len(m.call.readers) + 1
            cloned == [copied.store EXCEPT
                          !.call.readers = Append(@, ReaderCursor(m, f.reader))]
            m1 == LogAttempt(cloned, f.entry, child, context)
            reader == ReaderClone(f.reader, fresh)
            start == ReaderCursor(m1, reader)
            end == Literal_parse(LiteralNames(child), string, start)
            read == ReadString(string, start)
            Continue(mm, errors) ==
                RunLoop(h, SetTopFrame(SetReaderCursor(mm, reader, f.cursor),
                                       [f EXCEPT !.relevant = Tail(@),
                                                 !.errors = errors]))
            Await(mm, pending) ==
                SetTopFrame(mm, [f EXCEPT !.errors = errors1, !.pending = pending])
        IN  IF checked.overflow
            THEN ReturnFrom(m, Rejecting(f.contextSoFar, f.cursor))
            ELSE IF failure.failed /\ ~failure.reason
            THEN RunLoop(h, SetTopFrame(m, [f EXCEPT !.relevant = Tail(@)]))
            ELSE IF IsLiteral(child)
            THEN IF end > -1
                 THEN Await([SetReaderCursor(m1, reader, end) EXCEPT
                                !.call.contexts[context] =
                                    WithNode(@, child, NodeRange(start, end))],
                            [NoPending EXCEPT
                                !.at = "parse", !.rd = reader, !.start = start,
                                !.context = context])
                 ELSE Continue(m1, ErrorsSet(errors1, child,
                                             [name |-> "LiteralError", at |-> start]))
            ELSE IF Len(read.text) < UserMinLength \/ Len(read.text) > UserMaxLength
            THEN Await(SetReaderCursor(m1, reader, read.cursor),
                       [NoPending EXCEPT
                           !.at = "parse", !.rd = reader, !.start = start,
                           !.context = context,
                           !.failed = <<[name |-> "Not a user", at |-> read.cursor]>>])
            ELSE Await(SetReaderCursor(m1, reader, read.cursor),
                       [NoPending EXCEPT
                           !.at = "load", !.rd = reader, !.start = start,
                           !.context = context,
                           !.name = ToLowerCase(read.text)])

\* ArgumentCommandNode.parse after `await this.type.load(parsedValue)`: the
\* load rejected and so does the parse, or the argument and the node are
\* recorded in the context and the parse returns.  parseNodes, which awaits
\* this parse, goes on in a later turn.
ResumeLoad(h, m) ==
    LET f == TopFrame(m)
        p == f.pending
        child == Head(f.relevant)
        at == ReaderCursor(m, p.rd)
        parsed == [range |-> NodeRange(p.start, at), result |-> ToUpperCase(p.name)]
    IN  IF Includes(p.name, FailWord)
        THEN SetTopFrame(m, [f EXCEPT
                 !.pending.at = "parse",
                 !.pending.failed = <<[name |-> "Planned failure", at |-> at]>>])
        ELSE SetTopFrame([m EXCEPT
                             !.call.contexts[p.context] =
                                 WithNode(WithArgument(@, Name(child), parsed), child,
                                          parsed.range)],
                         [f EXCEPT !.pending.at = "parse"])

\* parseNodes after `await child.parse(...)`: the separator check, the catch
\* block, and what follows the try block up to the next await.
ResumeParse(h, m) ==
    LET f == TopFrame(m)
        p == f.pending
        string == m.call.input
        child == Head(f.relevant)
        reader == p.rd
        at == ReaderCursor(m, reader)
        Caught(error) ==
            RunLoop(h, SetTopFrame(SetReaderCursor(m, reader, f.cursor),
                                   [f EXCEPT !.relevant = Tail(@),
                                             !.errors = ErrorsSet(@, child, error),
                                             !.pending = NoPending]))
        context == p.context
        commanded == [m EXCEPT !.call.contexts[context] =
                                   WithCommand(@, h.command[child])]
        skipped == SetReaderCursor(commanded, reader, at + 1)
        childContext == StoreContext(skipped,
                                     NewContext(f.source, Redirect(child), at + 1))
        awaiting(mm) ==
            SetTopFrame(mm, [f EXCEPT !.pending = [NoPending EXCEPT
                                                      !.at = "nested",
                                                      !.context = context]])
        Call(mm, target, contextSoFar) ==
            [awaiting(mm) EXCEPT !.call.stack =
                Append(@, Frame(mm, target, reader, contextSoFar,
                                GetRelevant(h, target, string, at + 1)))]
    IN  IF p.failed # <<>> THEN Caught(p.failed[1])
        ELSE IF CanReadAnything(string, at) /\ Peek(string, at) # SP
        THEN Caught([name |-> "ExpectedArgumentSeparatorError", at |-> at])
        ELSE IF CanRead(string, at, IF Redirect(child) = 0 THEN 2 ELSE 1)
        THEN IF Redirect(child) # 0
             THEN RunLoop(h, Call(childContext.store, Redirect(child), childContext.id))
             ELSE RunLoop(h, Call(skipped, child, context))
        ELSE RunLoop(h, SetTopFrame(commanded,
                                    [f EXCEPT
                                        !.relevant = Tail(@),
                                        !.potentials =
                                            Append(@, Returning(context, reader, <<>>)),
                                        !.pending = NoPending]))

\* parseNodes after `await this.parseNodes(...)`, which no try block encloses:
\* the call rejects when the awaited call did.
ResumeNested(h, m) ==
    LET f == TopFrame(m)
        p == f.pending
        parse == p.parse[1]
        linked == [m EXCEPT !.call.contexts[p.context] = WithChild(@, parse.context)]
    IN  IF parse.thrown THEN ReturnFrom(m, parse)
        ELSE IF Redirect(Head(f.relevant)) # 0
        THEN ReturnFrom(LogReturn(linked, f.entry),
                        Returning(p.context, parse.ref, parse.exceptions))
        ELSE RunLoop(h, SetTopFrame(m, [f EXCEPT !.relevant = Tail(@),
                                                !.potentials = Append(@, parse),
                                                !.pending = NoPending]))

\* parse(ctx, command, source) up to its first await: command is a string
\* (reader 1 is created) or the StringReader 0.  Builder 1 is the context
\* that parse creates.
StartParse(h, shared, command, source, own) ==
    LET reader == IF own THEN 1 ELSE 0
        cursor == IF own THEN 0 ELSE shared
        m == [shared |-> shared,
              call |-> [phase |-> "running", input |-> command, source |-> source,
                        own |-> own, readers |-> IF own THEN <<0>> ELSE <<>>,
                        contexts |-> <<NewContext(source, Root, cursor)>>,
                        log |-> <<>>,
                        stack |-> <<>>, result |-> <<>>, overlapped |-> FALSE]]
    IN  RunLoop(h, [m EXCEPT !.call.stack =
                       <<Frame(m, Root, reader, 1,
                               GetRelevant(h, Root, command, cursor))>>])

\* parse after `return await this.parseNodes(...)`: the call settles with what
\* the first parseNodes call settled with, read as it is now.
ResumeReturn(h, m) ==
    [m EXCEPT !.call.phase = "done", !.call.result = ResultView(m, @)]

\* The call can go on: what it awaits has settled.
Resumable(call) ==
    \/ call.phase = "returning"
    \/ /\ call.phase = "running"
       /\ LET p == call.stack[Len(call.stack)].pending
          IN  p.at = "load" \/ p.at = "parse" \/ (p.at = "nested" /\ p.parse # <<>>)

\* One turn of the event loop for a call that can go on: from the await it is
\* suspended in to the next.
Resume(h, m) ==
    IF m.call.phase = "returning" THEN ResumeReturn(h, m)
    ELSE IF TopFrame(m).pending.at = "load" THEN ResumeLoad(h, m)
    ELSE IF TopFrame(m).pending.at = "parse" THEN ResumeParse(h, m)
    ELSE ResumeNested(h, m)

\* The call is suspended in the load of an argument.
Loading(call) ==
    /\ call.phase = "running"
    /\ LET f == call.stack[Len(call.stack)]
       IN  f.pending.at = "load"

(***************************************************************************)
(* command.ts: executeResults.                                             *)
(***************************************************************************)
NoError == [name |-> "none", at |-> 0]
\* new UnknownSomethingError(reader, thing)
UnknownSomethingError(thing, reader) == [name |-> "Unknown " \o thing, at |-> reader]

\* The functions that dispatcher.consumer holds: the one set before the calls
\* and the one a callback sets.
FirstConsumer == 1
OtherConsumer == 2

\* The executors that throw when run.
ThrowingCommands == {12}

Outcome(thrown, result, consumer, invoked) ==
    [done |-> TRUE, thrown |-> thrown, result |-> result, consumer |-> consumer,
     invoked |-> invoked]

\* copyFor(source)
CopyFor(context, source) == [context EXCEPT !.source = source]

\* context.modifier(context): what the modifier returns, which executeResults
\* hands to copyFor as the source, or a throw.  The modifiers in use are the
\* one a builder was given, which throws, and the root's own, s => s, which
\* returns the context it was given and not the source of that context.
ApplyModifier(node, context) ==
    CASE Modifier(node) = "throws" -> [ok |-> FALSE, source |-> context.source]
      [] Modifier(node) = "self" -> [ok |-> TRUE, source |-> context]

\* get hasNodes()
HasNodes(context) == context.nodes # <<>>

\* this.consumer(context, success), with the function that the dispatcher's
\* consumer field holds when the call is made.
Told(context, success, fn) == [context |-> context, success |-> success, by |-> fn]

\* The end of executeResults that throws without telling the consumer.
ExecuteFinishSilent(original, reader, foundCommand, result, consumer, invoked, fn) ==
    IF ~foundCommand
    THEN Outcome(UnknownSomethingError("command", reader), result, consumer, invoked)
    ELSE Outcome(NoError, result, consumer, invoked)

\* After the while loop: no command found throws, after telling the consumer.
ExecuteFinish(original, reader, foundCommand, result, consumer, invoked, fn) ==
    IF ~foundCommand
    THEN Outcome(UnknownSomethingError("command", reader), result,
                 Append(consumer, Told(original, FALSE, fn)), invoked)
    ELSE Outcome(NoError, result, consumer, invoked)

\* executeResults suspended at `await context.command(context)`: the executor
\* has been called and has returned.
ExecuteAwait(original, reader, context, result, consumer, invoked) ==
    [done |-> FALSE, original |-> original, reader |-> reader, context |-> context,
     result |-> result, consumer |-> consumer, invoked |-> invoked]

\* The while loop of executeResults from `context` on, up to the await of an
\* executor that returned or to the end of the call.  An executor is a
\* function that returns or throws; what it throws is caught at once.
RECURSIVE ExecuteWalk(_, _, _, _, _, _, _, _)
ExecuteWalk(original, reader, context, foundCommand, result, consumer, invoked, fn) ==
    IF context.child # <<>>
    THEN IF HasNodes(context.child[1])
         THEN IF context.modifier # 0
              THEN LET modified == ApplyModifier(context.modifier, context)
                   IN  IF ~modified.ok
                       THEN Outcome([name |-> "Modifier failed", at |-> 0], result,
                                    Append(consumer, Told(context, FALSE, fn)),
                                    invoked)
                       ELSE ExecuteWalk(original, reader,
                                        CopyFor(context.child[1], modified.source),
                                        TRUE, result, consumer, invoked, fn)
              ELSE ExecuteWalk(original, reader,
                               CopyFor(context.child[1], context.source),
                               TRUE, result, consumer, invoked, fn)
         ELSE ExecuteFinish(original, reader, foundCommand, result, consumer, invoked,
                            fn)
    ELSE IF context.command # 0
    THEN IF context.command \in ThrowingCommands
         THEN Outcome([name |-> "Execution failed", at |-> 0], result,
                      Append(consumer, Told(context, FALSE, fn)),
                      Append(invoked, context.command))
         ELSE ExecuteAwait(original, reader, context, result, consumer,
                           Append(invoked, context.command))
    ELSE ExecuteFinish(original, reader, foundCommand, result, consumer, invoked, fn)

\* executeResults(parse), for the parse of `string`, up to its first await.
ExecuteResults(string, parse, fn) ==
    IF CanReadAnything(string, parse.reader)
    THEN IF Len(parse.exceptions) = 1
         THEN Outcome(parse.exceptions[1].error, <<>>, <<>>, <<>>)
         ELSE IF RangeIsEmpty(parse.context.range)
         THEN Outcome(UnknownSomethingError("argument", parse.reader), <<>>, <<>>, <<>>)
         ELSE Outcome(UnknownSomethingError("command", parse.reader), <<>>, <<>>, <<>>)
    ELSE ExecuteWalk(parse.context, parse.reader, parse.context, FALSE,
                     <<>>, <<>>, <<>>, fn)

\* executeResults after `await context.command(context)`: the consumer that is
\* set now is told, the value is pushed, and the loop ends, no context
\* following the one that holds the command.
ExecuteResume(e, fn) ==
    ExecuteFinish(e.original, e.reader, TRUE,
                  Append(e.result, [result |-> "success", value |-> e.context.command]),
                  Append(e.consumer, Told(e.context, TRUE, fn)),
                  e.invoked, fn)

\* An executeResults call is suspended.
Executing(e) == ~e.done /\ "context" \in DOMAIN e

(***************************************************************************)
(* suggestions.ts: Suggestion, Suggestions, SuggestionsBuilder.            *)
(***************************************************************************)
\* A tooltip is a sequence of no (null) or one string.
Suggestion(range, node, text, tooltip) ==
    [range |-> range, node |-> node, text |-> text, tooltip |-> tooltip]

\* EMPTY_SUGGESTIONS
EmptySuggestions == [range |-> At(0), suggestions |-> <<>>]

\* Suggestion.expand(command, range)
Expand(suggestion, command, range) ==
    IF range = suggestion.range THEN suggestion
    ELSE Suggestion(
             range, suggestion.node,
             (IF range.start < suggestion.range.start
              THEN Substring(command, range.start, suggestion.range.start)
              ELSE <<>>)
             \o suggestion.text
             \o (IF range.end > suggestion.range.end
                 THEN Substring(command, suggestion.range.end, range.end)
                 ELSE <<>>),
             suggestion.tooltip)

\* sorted.sort(suggestionComparator): the comparator is undefined, so the
\* elements are ordered by their string form, which is "[object Object]" for
\* every Suggestion; the sort is stable and keeps the order.
SortSuggestions(suggestions) == suggestions

\* Suggestions.create(command, suggestions)
SuggestionsCreate(command, suggestions) ==
    IF suggestions = <<>> THEN EmptySuggestions
    ELSE LET starts == {suggestions[i].range.start : i \in 1..Len(suggestions)}
             ends == {suggestions[i].range.end : i \in 1..Len(suggestions)}
             range == Between(CHOOSE x \in starts : \A y \in starts : x <= y,
                              CHOOSE x \in ends : \A y \in ends : x >= y)
         IN  [range |-> range,
              suggestions |-> SortSuggestions(
                  [i \in 1..Len(suggestions) |-> Expand(suggestions[i], command, range)])]

RECURSIVE Flatten(_)
Flatten(sets) ==
    IF sets = <<>> THEN <<>>
    ELSE Head(sets).suggestions \o Flatten(Tail(sets))

\* Suggestions.merge(command, input): the Set holds Suggestion objects, and no
\* two builders share one, so nothing is dropped from it.
SuggestionsMerge(command, input) ==
    IF Len(input) = 0 THEN EmptySuggestions
    ELSE IF Len(input) = 1 THEN input[1]
    ELSE SuggestionsCreate(command, Flatten(input))

\* new SuggestionsBuilder(input, start, metadata): metadata is the node.
SuggestionsBuilder(input, start, node) ==
    [input |-> input, start |-> start, node |-> node,
     remaining |-> Substring(input, start, Len(input)), result |-> <<>>]

\* suggest that offers the text even when it is what was typed.
SuggestAll(builder, text, tooltip) ==
    [builder EXCEPT !.result =
        Append(@, Suggestion(Between(builder.start, Len(builder.input)),
                             builder.node, text, tooltip))]

\* builder.suggest(text, tooltip)
Suggest(builder, text, tooltip) ==
    IF text = builder.remaining THEN builder
    ELSE [builder EXCEPT !.result =
             Append(@, Suggestion(Between(builder.start, Len(builder.input)),
                                  builder.node, text, tooltip))]

\* builder.build()
BuilderBuild(builder) == SuggestionsCreate(builder.input, builder.result)

\* other.join(', ')
RECURSIVE Join(_)
Join(strings) ==
    IF strings = <<>> THEN <<>>
    ELSE IF Len(strings) = 1 THEN strings[1]
    ELSE strings[1] \o <<",", " ">> \o Join(Tail(strings))

\* LiteralCommandNode.listSuggestions: the loop over literalNames from the k-th.
RECURSIVE LiteralSuggest(_, _, _)
LiteralSuggest(builder, literalNames, k) ==
    IF k > Len(literalNames) THEN builder
    ELSE LET literal == literalNames[k]
             other == SelectSeq(literalNames, LAMBDA e : e # literal)
         IN  IF StartsWith(ToLowerCase(literal), ToLowerCase(builder.remaining))
             THEN LiteralSuggest(
                      Suggest(builder, literal,
                              IF Len(other) = 0 THEN <<>> ELSE <<Join(other)>>),
                      literalNames, k + 1)
             ELSE LiteralSuggest(builder, literalNames, k + 1)

\* A listing that offers every example, whatever was typed.
RECURSIVE ExampleSuggestAll(_, _)
ExampleSuggestAll(builder, examples) ==
    IF examples = <<>> THEN builder
    ELSE ExampleSuggestAll(Suggest(builder, Head(examples), <<>>), Tail(examples))

\* ArgumentType.listSuggestions: the examples that start with the remainder.
RECURSIVE ExampleSuggest(_, _)
ExampleSuggest(builder, examples) ==
    IF examples = <<>> THEN builder
    ELSE ExampleSuggest(
             IF StartsWith(Head(examples), builder.remaining)
             THEN Suggest(builder, Head(examples), <<>>)
             ELSE builder,
             Tail(examples))

\* What listSuggestions gives: the Suggestions it resolves to, or a throw.
Listed(suggestions) == [thrown |-> FALSE, suggestions |-> suggestions]
ListingThrown == [thrown |-> TRUE, suggestions |-> EmptySuggestions]

\* node.listSuggestions(entry, context, builder): the names of a literal; the
\* custom provider of an argument, or else the examples of its type.
ListSuggestions(node, builder) ==
    IF IsLiteral(node)
    THEN Listed(BuilderBuild(LiteralSuggest(builder, LiteralNames(node), 1)))
    ELSE IF IsArgument(node)
    THEN IF CustomSuggestions(node) = "throws" THEN ListingThrown
         ELSE Listed(BuilderBuild(ExampleSuggest(builder, UserExamples)))
    ELSE Listed(EmptySuggestions)

(***************************************************************************)
(* command.ts: findSuggestionContext and getCompletionSuggestions.         *)
(***************************************************************************)
SuggestionContext(parent, startPos) ==
    [ok |-> TRUE, parent |-> parent, startPos |-> startPos]

\* The for loop of findSuggestionContext from the k-th recorded node.
RECURSIVE FindInNodes(_, _, _, _)
FindInNodes(context, cursor, k, prev) ==
    IF k > Len(context.nodes) THEN SuggestionContext(prev, context.range.start)
    ELSE LET nodeRange == context.nodes[k].range
         IN  IF nodeRange.start <= cursor /\ cursor <= nodeRange.end
             THEN SuggestionContext(prev, nodeRange.start)
             ELSE FindInNodes(context, cursor, k + 1, context.nodes[k].node)

\* findSuggestionContext(cursor)
RECURSIVE FindSuggestionContext(_, _)
FindSuggestionContext(context, cursor) ==
    IF context.range.start <= cursor
    THEN IF context.range.end < cursor
         THEN IF context.child # <<>>
              THEN FindSuggestionContext(context.child[1], cursor)
              ELSE IF Len(context.nodes) > 0
              THEN SuggestionContext(context.nodes[Len(context.nodes)].node,
                                     context.nodes[Len(context.nodes)].range.end + 1)
              ELSE SuggestionContext(context.rootNode, context.range.start)
         ELSE FindInNodes(context, cursor, 1, context.rootNode)
    ELSE [ok |-> FALSE, parent |-> 0, startPos |-> 0]

\* A loop that skips every node whose requirement fails.
SkipsFailed(failure) == failure.failed

\* A loop whose body has no try block: the throw of a provider leaves it.
IgnoredNever(listed) == FALSE

\* catch (ignored) { }: every throw of listSuggestions is swallowed.
Ignored(listed) == listed.thrown

\* Whether the loop of getCompletionSuggestions skips the node.
SkipsInTree(failure) == failure.failed /\ ~failure.showInTree

\* What getCompletionSuggestions ends in.
SuggestDone(thrown, suggestions) ==
    [done |-> TRUE, thrown |-> thrown, suggestions |-> suggestions]

\* getCompletionSuggestions suspended at `await node.listSuggestions(...)` for
\* the first of `children`, the rest of the copy of parent.children that the
\* loop walks.  The listing has been called; `at` is "inner" while the listing
\* of an argument awaits its provider or its type, "outer" after that.
SuggestAwait(children, truncatedInput, start, futures, at, listed) ==
    [done |-> FALSE, children |-> children, truncatedInput |-> truncatedInput,
     start |-> start, futures |-> futures, at |-> at, listed |-> listed]

\* The for loop of getCompletionSuggestions from the first of `children` on,
\* up to the next await or to the end of the call.  A provider that throws
\* rejects the listing before its own await.
RECURSIVE SuggestLoop(_, _, _, _, _, _, _)
SuggestLoop(h, fullInput, children, source, truncatedInput, start, futures) ==
    IF children = <<>>
    THEN SuggestDone("none", SuggestionsMerge(fullInput, futures))
    ELSE LET node == Head(children)
             checked == CheckRequirement(h, node, source)
         IN  IF checked.overflow
             THEN SuggestDone("stack overflow", EmptySuggestions)
             ELSE IF SkipsInTree(checked.failure)
             THEN SuggestLoop(h, fullInput, Tail(children), source, truncatedInput,
                              start, futures)
             ELSE \* node.listSuggestions(entry, context.build(truncatedInput), ...)
                  LET listed == ListSuggestions(node, SuggestionsBuilder(truncatedInput,
                                                                         start, node))
                  IN  SuggestAwait(children, truncatedInput, start, futures,
                                   IF IsArgument(node) /\ ~listed.thrown
                                   THEN "inner" ELSE "outer",
                                   listed)

\* getCompletionSuggestions(entry, parse, cursor, source), for the parse of
\* fullInput, up to its first await.
GetCompletionSuggestions(h, fullInput, parse, cursor, source) ==
    LET nodeBeforeCursor == FindSuggestionContext(parse.context, cursor)
        start == Min(nodeBeforeCursor.startPos, cursor)
        truncatedInput == Substring(fullInput, 0, cursor)
    IN  IF ~nodeBeforeCursor.ok
        THEN SuggestDone("Can't find node before cursor", EmptySuggestions)
        ELSE SuggestLoop(h, fullInput, Children(h, nodeBeforeCursor.parent), source,
                         truncatedInput, start, <<>>)

\* The event loop resumes the call: the listing of an argument returns what
\* it awaited, or the loop takes what the listing settled to (catch (ignored)
\* for a rejection), pushes it and goes on with the next child.
SuggestResume(h, fullInput, source, s) ==
    IF s.at = "inner"
    THEN [s EXCEPT !.at = "outer"]
    ELSE IF s.listed.thrown /\ ~Ignored(s.listed)
    THEN SuggestDone("Provider failed", EmptySuggestions)
    ELSE SuggestLoop(h, fullInput, Tail(s.children), source, s.truncatedInput,
                     s.start,
                     Append(s.futures, IF s.listed.thrown THEN EmptySuggestions
                                       ELSE s.listed.suggestions))

\* A getCompletionSuggestions call is suspended.
Suggesting(s) == ~s.done /\ "children" \in DOMAIN s

(***************************************************************************)
(* A dispatcher with its commands registered: parse an input for a source, *)
(* then execute the parse or ask for completions at a cursor.              *)
(***************************************************************************)
\* The orders in which a caller registers its commands.
Scripts == {
    <<2, 5, 8, 9, 11, 12, 13>>,     \* a 1st part, a 2nd part, d, b, j, <z>, h
    <<5, 2, 9, 8, 11, 13>>,         \* no argument under the root
    <<13, 11, 14, 12, 15, 16>>,     \* h, j, <y>, <z>, k, <t>
    <<14, 19, 21>>                  \* <y>, <z> -> root, B
}

Words == {
    <<"a">>, <<"i">>, <<"x">>, <<"j">>, <<"d">>, <<"b">>, <<"k">>, <<"q">>,
    <<"u", "s", "e">>, <<"u", "s", "e", "r">>, <<"f", "a", "i", "l">>
}

\* The inputs of 1..n words separated by one space.
RECURSIVE Sentences(_)
Sentences(n) ==
    IF n = 0 THEN {}
    ELSE LET shorter == Sentences(n - 1)
         IN  Words \cup shorter \cup {s \o <<SP>> \o w : s \in shorter, w \in Words}

\* n times the literal that redirects to the root, each followed by a space.
RECURSIVE Redirects(_)
Redirects(n) == IF n = 0 THEN <<>> ELSE <<"j", SP>> \o Redirects(n - 1)

\* The empty input, each sentence with and without a trailing space, and a word
\* after 1..MaxRedirects redirects.
Inputs ==
    {<<>>} \cup Sentences(MaxWords) \cup {s \o <<SP>> : s \in Sentences(MaxWords)}
    \cup {Redirects(n) \o w : n \in 1..MaxRedirects, w \in Words}

\* The inputs during whose parse a callback changes the tree.
CallbackInputs == {
    <<"j", SP, "j", SP, "j", SP, "a">>,
    <<"a", SP, "i">>,
    <<"d", SP, "x">>,
    <<"u", "s", "e", "r">>,
    <<"j", SP, "u", "s", "e", "r">>
}

InitParse ==
    /\ heap \in {RegisterAll(BuiltHeap, script) : script \in Scripts}
    /\ nOps = 0
    /\ last = NoCall
    /\ trip = NoTrip
    /\ pr = NoParse
    /\ ex = NoOutcome
    /\ sg = NoOutcome
    /\ lit = NoOutcome
    /\ bld = NoOutcome
    /\ fk = NoOutcome
    /\ cc = NoOutcome
    /\ ob = NoOutcome
    /\ fs = NoOutcome
    /\ am = NoOutcome
    /\ cn = FirstConsumer

\* dispatcher.parse(ctx, input, source) is called and runs to its first await.
DoParse ==
    /\ pr.phase = "idle"
    /\ \E input \in Inputs, source \in Sources :
          \E m \in {StartParse(heap, 0, input, source, TRUE)} :
              pr' = [phase |-> "parsing", input |-> input, source |-> source,
                     shared |-> m.shared, call |-> m.call, changed |-> FALSE]
    /\ UNCHANGED <<heap, nOps, last, trip, ex, sg, lit, bld, fk, cc, ob, fs, am, cn>>

\* The event loop resumes the call at the await it is suspended in; the turn in
\* which parse returns hands the result to the caller that awaits it.
DoResume ==
    /\ pr.phase = "parsing"
    /\ Resumable(pr.call)
    /\ \E m \in {Resume(heap, [shared |-> pr.shared, call |-> pr.call])} :
          pr' = IF m.call.phase = "done"
                THEN [phase |-> "parsed", input |-> pr.input, source |-> pr.source,
                      result |-> m.call.result, changed |-> pr.changed]
                ELSE [pr EXCEPT !.shared = m.shared, !.call = m.call]
    /\ UNCHANGED <<heap, nOps, last, trip, ex, sg, lit, bld, fk, cc, ob, fs, am, cn>>

\* dispatcher.executeResults(result) is called and runs to its await, or to
\* its end when it awaits nothing.
DoExecute ==
    /\ pr.phase = "parsed"
    /\ ~pr.result.thrown
    /\ ex = NoOutcome /\ sg = NoOutcome
    /\ ex' = ExecuteResults(pr.input, pr.result, cn)
    /\ UNCHANGED <<heap, nOps, last, trip, pr, sg, lit, bld, fk, cc, ob, fs, am, cn>>

\* The event loop resumes executeResults after the executor it awaits.
DoExecuteResume ==
    /\ Executing(ex)
    /\ ex' = ExecuteResume(ex, cn)
    /\ UNCHANGED <<heap, nOps, last, trip, pr, sg, lit, bld, fk, cc, ob, fs, am, cn>>

\* Between the two turns of executeResults other code of the program runs:
\* here a callback that assigns another function to dispatcher.consumer.
DoSetConsumer ==
    /\ Executing(ex)
    /\ cn = FirstConsumer
    /\ cn' = OtherConsumer
    /\ UNCHANGED <<heap, nOps, last, trip, pr, ex, sg, lit, bld, fk, cc, ob, fs, am>>

\* dispatcher.getCompletionSuggestions(entry, result, cursor, source) is called
\* and runs to its first await, or to its end when it awaits nothing.
DoSuggest ==
    /\ pr.phase = "parsed"
    /\ ~pr.result.thrown
    /\ ex = NoOutcome /\ sg = NoOutcome
    /\ \E cursor \in 0..Len(pr.input) :
          sg' = [cursor |-> cursor] @@
                GetCompletionSuggestions(heap, pr.input, pr.result, cursor, pr.source)
    /\ UNCHANGED <<heap, nOps, last, trip, pr, ex, lit, bld, fk, cc, ob, fs, am, cn>>

\* The event loop resumes getCompletionSuggestions after what it awaits.
DoSuggestResume ==
    /\ Suggesting(sg)
    /\ sg' = [cursor |-> sg.cursor] @@ SuggestResume(heap, pr.input, pr.source, sg)
    /\ UNCHANGED <<heap, nOps, last, trip, pr, ex, lit, bld, fk, cc, ob, fs, am, cn>>

\* Between two turns of a parse or of a getCompletionSuggestions call other
\* code of the program runs: here a callback that calls dispatcher.unregister
\* on a child of the root.  The call goes on with the tree as it finds it.
DoUnregister ==
    /\ pr.phase = "parsing" \/ Suggesting(sg)
    /\ pr.input \in CallbackInputs
    /\ ~pr.changed
    /\ \E i \in 1..Len(Children(heap, Root)) :
          heap' = UnregisterBuilt(heap, Children(heap, Root)[i])
    /\ pr' = [pr EXCEPT !.changed = TRUE]
    /\ UNCHANGED <<nOps, last, trip, ex, sg, lit, bld, fk, cc, ob, fs, am, cn>>

NextParse ==
    \/ DoParse
    \/ DoResume
    \/ DoUnregister
    \/ DoExecute
    \/ DoExecuteResume
    \/ DoSetConsumer
    \/ DoSuggest
    \/ DoSuggestResume

SpecParse == InitParse /\ [][NextParse]_vars

(***************************************************************************)
(* Properties of parse, executeResults and getCompletionSuggestions.       *)
(***************************************************************************)
\* The call has returned a result, and the tree is the one it was called on.
Parsed == pr.phase = "parsed" /\ ~pr.result.thrown /\ ~pr.changed

\* The nodes recorded in a context and in its chain of child contexts.
RECURSIVE ContextNodes(_)
ContextNodes(context) ==
    {context.nodes[i].node : i \in 1..Len(context.nodes)}
    \cup (IF context.child = <<>> THEN {} ELSE ContextNodes(context.child[1]))

\* The last context of the chain: the one whose command executeResults runs.
RECURSIVE LastContext(_)
LastContext(context) ==
    IF context.child = <<>> THEN context ELSE LastContext(context.child[1])

FailsRequirement(n, source) == CheckRequirement(heap, n, source).failure.failed

\* C1: a child whose checkRequirement fails for the source is never parsed: no
\* context of the parse result records it, and the command that the result
\* selects is never that child's.
C1_FailingChildNeverParsed ==
    Parsed =>
        /\ \A n \in ContextNodes(pr.result.context) : ~FailsRequirement(n, pr.source)
        /\ \A n \in NodeIds :
              (/\ FailsRequirement(n, pr.source)
               /\ heap.command[n] # 0
               /\ LastContext(pr.result.context).nodes # <<>>)
              => LET nodes == LastContext(pr.result.context).nodes
                 IN  nodes[Len(nodes)].node # n

\* What checkRequirement is said to return for a node whose own requirement
\* passes: permitted exactly when one of the three holds.
HasPermittedWay(n, source) ==
    \/ heap.command[n] # 0
    \/ Redirect(n) # 0 /\ ~FailsRequirement(Redirect(n), source)
    \/ \E i \in 1..Len(Children(heap, n)) :
          ~FailsRequirement(Children(heap, n)[i], source)

\* C2: checkRequirement(source) returns the node's own failure when its
\* requirement fails; otherwise it permits the node exactly when the node has
\* an executor, a permitted redirect target or a permitted child, and returns
\* a failure when none of the three holds.
C2_PermittedIffSomeWay ==
    \A n \in NodeIds, source \in Sources :
        LET checked == CheckRequirement(heap, n, source)
        IN  ~checked.overflow =>
                IF Requirement(n, source).failed
                THEN checked.failure = Requirement(n, source)
                ELSE ~checked.failure.failed <=> HasPermittedWay(n, source)

Unread == Parsed /\ CanReadAnything(pr.input, pr.result.reader)

\* C8: executeResults on a parse that left input unread throws the recorded
\* error when there is exactly one; otherwise it throws unknown-command when
\* the context range is empty and unknown-argument when a node was matched;
\* no executor is invoked.
C8_UnreadInputError ==
    (ex.done /\ Unread) =>
        /\ ex.invoked = <<>>
        /\ ex.thrown =
              IF Len(pr.result.exceptions) = 1 THEN pr.result.exceptions[1].error
              ELSE IF RangeIsEmpty(pr.result.context.range)
              THEN UnknownSomethingError("command", pr.result.reader)
              ELSE UnknownSomethingError("argument", pr.result.reader)

Consumed == Parsed /\ ~CanReadAnything(pr.input, pr.result.reader)

\* consumer(original, false) was the last thing told to the consumer, and the
\* unknown-command error was thrown.
ThrewUnknownCommand ==
    /\ ex.thrown = UnknownSomethingError("command", pr.result.reader)
    /\ ex.consumer # <<>>
    /\ ex.consumer[Len(ex.consumer)] = Told(pr.result.context, FALSE, cn)

\* C9 as stated: executeResults on a fully consumed parse throws
\* unknown-command, after consumer(original, false), whenever no executor was
\* invoked, chains through redirects included.
C9_NoExecutorThrows ==
    (ex.done /\ Consumed /\ ex.invoked = <<>> /\ ex.thrown.name # "Modifier failed")
        => ThrewUnknownCommand

\* The top context of the parse has a child context that recorded a node.
EnteredChild ==
    /\ pr.result.context.child # <<>>
    /\ pr.result.context.child[1].nodes # <<>>

\* Some context of the chain carries a redirect modifier.
RECURSIVE ChainHasModifier(_)
ChainHasModifier(context) ==
    \/ context.modifier # 0
    \/ context.child # <<>> /\ ChainHasModifier(context.child[1])

\* C9 amended: on a fully consumed parse where no executor was invoked,
\* executeResults throws unknown-command after consumer(original, false) when
\* the top context has no child context with a recorded node; when it has
\* one, no unknown-command error is thrown, and with no redirect modifier in
\* the chain nothing is thrown, the result list is empty and the consumer is
\* told nothing.
C9_NoExecutorThrowsUnlessChild ==
    (ex.done /\ Consumed /\ ex.invoked = <<>>) =>
        IF EnteredChild
        THEN /\ ex.thrown # UnknownSomethingError("command", pr.result.reader)
             /\ ~ChainHasModifier(pr.result.context)
                   => ex.thrown = NoError /\ ex.result = <<>> /\ ex.consumer = <<>>
        ELSE ThrewUnknownCommand

\* A literal without executor was matched and nothing was redirected.
C9_Witness ==
    /\ ex.done /\ Consumed /\ ex.invoked = <<>>
    /\ ~EnteredChild
    /\ pr.result.context.nodes # <<>>
    /\ ThrewUnknownCommand

\* The root children for which checkRequirement does not fail silently.
ListedRootChildren ==
    SelectSeq(Children(heap, Root),
              LAMBDA c : LET failure == CheckRequirement(heap, c, pr.source).failure
                         IN  ~failure.failed \/ failure.showInTree)

Texts(suggestions) == [i \in 1..Len(suggestions) |-> suggestions[i].text]

AtStart == Parsed /\ sg.done /\ sg.cursor = 0 /\ sg.thrown = "none"

\* C10 as stated: with the cursor at 0 the suggestions are exactly the names
\* of the root children that are not omitted for the source, literals before
\* arguments, each group in locale order.
C10_RootChildNames ==
    AtStart =>
        Texts(sg.suggestions.suggestions)
            = [i \in 1..Len(ListedRootChildren) |-> Name(ListedRootChildren[i])]

\* What a listed child contributes at the start of the input: every name of a
\* literal, the examples of the type of an argument.
RECURSIVE TextsAtStart(_)
TextsAtStart(children) ==
    IF children = <<>> THEN <<>>
    ELSE (IF IsLiteral(Head(children))
          THEN SelectSeq(LiteralNames(Head(children)), LAMBDA name : name # <<>>)
          ELSE IF CustomSuggestions(Head(children)) # "none" THEN <<>>
          ELSE UserExamples)
         \o TextsAtStart(Tail(children))

\* C10 amended: with the cursor at 0 the suggestions are, for the root
\* children whose checkRequirement passes or fails with showInTree, taken in
\* the order of children (literals before arguments, each group ascending by
\* sort key), every name of a literal child, aliases included, and the
\* examples of the argument type of an argument child; an argument child
\* whose custom suggestion provider throws contributes nothing.
C10_RootChildNamesAndExamples ==
    AtStart =>
        /\ Texts(sg.suggestions.suggestions) = TextsAtStart(ListedRootChildren)
        /\ \A i, j \in 1..Len(ListedRootChildren) :
              i < j => CompareTo(ListedRootChildren[i], ListedRootChildren[j]) <= 0

\* The root has a child that is left out, one that fails but is listed with
\* its alias, and an argument child.
C10_Witness ==
    /\ AtStart
    /\ Len(ListedRootChildren) < Len(Children(heap, Root))
    /\ \E i \in 1..Len(ListedRootChildren) :
          /\ FailsRequirement(ListedRootChildren[i], pr.source)
          /\ Len(LiteralNames(ListedRootChildren[i])) > 1
    /\ \E i \in 1..Len(ListedRootChildren) : IsArgument(ListedRootChildren[i])
    /\ Len(sg.suggestions.suggestions) > Len(ListedRootChildren)

Suggested == Parsed /\ sg.done /\ sg.thrown = "none"

\* The parent whose children are asked, and the text typed between the anchor
\* of the suggestions and the cursor.
SuggestionParent == FindSuggestionContext(pr.result.context, sg.cursor).parent

TypedRemainder ==
    LET startPos == FindSuggestionContext(pr.result.context, sg.cursor).startPos
    IN  Substring(pr.input, Min(startPos, sg.cursor), sg.cursor)

\* C11: no suggestion returned by getCompletionSuggestions has a text equal to
\* the remainder typed between the anchor and the cursor.
C11_NeverSuggestsRemainder ==
    Suggested =>
        \A i \in 1..Len(sg.suggestions.suggestions) :
            sg.suggestions.suggestions[i].text # TypedRemainder

\* Something was typed that is a name of a listed literal child; its other
\* name is returned.
C11_Witness ==
    /\ Suggested
    /\ TypedRemainder # <<>>
    /\ \E i \in 1..Len(Children(heap, SuggestionParent)) :
          LET c == Children(heap, SuggestionParent)[i]
          IN  /\ IsLiteral(c)
              /\ ~FailsRequirement(c, pr.source)
              /\ \E k \in 1..Len(LiteralNames(c)) : LiteralNames(c)[k] = TypedRemainder
    /\ sg.suggestions.suggestions # <<>>

\* C12: the suggestions returned are in the sort order of their texts, not in
\* the order in which the children supplied them.
C12_SuggestionsSortedByText ==
    Suggested =>
        \A i, j \in 1..Len(sg.suggestions.suggestions) :
            i < j => LocaleCompare(sg.suggestions.suggestions[i].text,
                                   sg.suggestions.suggestions[j].text) <= 0

\* The number of leading "j " of an input, and what follows them.
RECURSIVE LeadingRedirects(_)
LeadingRedirects(input) ==
    IF Len(input) >= 2 /\ SubSeq(input, 1, 2) = <<"j", SP>>
    THEN 1 + LeadingRedirects(SubSeq(input, 3, Len(input)))
    ELSE 0

AfterRedirects(input) == SubSeq(input, 2 * LeadingRedirects(input) + 1, Len(input))

\* The contexts of a chain, the top one first.
RECURSIVE Chain(_)
Chain(context) ==
    <<context>> \o (IF context.child = <<>> THEN <<>> ELSE Chain(context.child[1]))

\* A parse that consumed its input with no error and matched a node.
ParsesCompletely(string, result) ==
    /\ ~result.thrown
    /\ ~CanReadAnything(string, result.reader)
    /\ result.exceptions = <<>>
    /\ result.context.nodes # <<>>

\* The root has the literal j that redirects to it, the input is n >= 1 times
\* "j " and then a command that parses completely from the root on its own.
RedirectedCommand ==
    /\ pr.phase = "parsed" /\ ~pr.changed
    /\ GetChild(heap, Root, <<"j">>) # 0
    /\ Redirect(GetChild(heap, Root, <<"j">>)) = Root
    /\ LeadingRedirects(pr.input) >= 1
    /\ ParsesCompletely(AfterRedirects(pr.input),
                        Parse(heap, AfterRedirects(pr.input), pr.source))

Shifted(nodes, by) ==
    [i \in 1..Len(nodes) |->
        [node |-> nodes[i].node,
         range |-> Between(nodes[i].range.start + by, nodes[i].range.end + by)]]

\* C13: n >= 1 repetitions of the literal j that redirects to the root, then a
\* root command that parses completely, parse completely: the reader is
\* consumed, the error map is empty, and the result is a chain of n + 1
\* contexts, one per redirect taken and the last with the command's nodes.
C13_RedirectChainParses ==
    RedirectedCommand =>
        LET n == LeadingRedirects(pr.input)
            alone == Parse(heap, AfterRedirects(pr.input), pr.source)
            chain == Chain(pr.result.context)
        IN  /\ ~pr.result.thrown
            /\ ~CanReadAnything(pr.input, pr.result.reader)
            /\ pr.result.exceptions = <<>>
            /\ Len(chain) = n + Len(Chain(alone.context))
            /\ \A i \in 1..n :
                  chain[i].nodes = <<[node |-> GetChild(heap, Root, <<"j">>),
                                      range |-> Between(2 * (i - 1), 2 * i - 1)]>>
            /\ chain[n + 1].nodes = Shifted(alone.context.nodes, 2 * n)

(***************************************************************************)
(* builder.ts: the fluent builder, in its current form and in the older    *)
(* form that goes with the fork-capable dispatcher.  A requirement given   *)
(* to requires() is a predicate; the builder's requirement field is        *)
(* undefined, one predicate or an array of them.                           *)
(***************************************************************************)
\* The predicates given to requires(): the sources each fails, and how.
Predicates ==
    {[kind |-> "deny", fails |-> {2}], [kind |-> "show", fails |-> {2}],
     [kind |-> "hide", fails |-> {1}], [kind |-> "none", fails |-> {}]}

\* requirement(user)
PredicateResult(p, source) ==
    IF source \in p.fails THEN Requires(p.kind, 2) ELSE Permitted

RequirementUndefined == [kind |-> "undefined", items |-> <<>>]
RequirementOne(p) == [kind |-> "one", items |-> <<p>>]
RequirementArray(items) == [kind |-> "array", items |-> items]

\* ArgumentBuilder.requires(requirement)
RequiresCall(requirement, p) ==
    IF requirement.kind = "array" THEN RequirementArray(Append(requirement.items, p))
    ELSE IF requirement.kind # "undefined"
    THEN RequirementArray(<<requirement.items[1], p>>)
    ELSE RequirementOne(p)

\* ArgumentBuilder.requires(requirement) of the older builder: the field starts
\* as () => true and each call replaces it.
RequiresCallOlder(requirement, p) == RequirementOne(p)

\* The older builder's requirement(source): a boolean.
OlderRequirement(requirement, source) ==
    IF requirement.kind = "undefined" THEN TRUE
    ELSE ~PredicateResult(requirement.items[1], source).failed

\* requireAnd(requirements)(user): the first failure in the order of the array.
RECURSIVE RequireAnd(_, _)
RequireAnd(items, source) ==
    IF items = <<>> THEN Permitted
    ELSE IF PredicateResult(Head(items), source).failed
    THEN PredicateResult(Head(items), source)
    ELSE RequireAnd(Tail(items), source)

\* normalizeRequirement(requirement)(user)
NormalizeRequirement(requirement, source) ==
    IF requirement.kind = "undefined" THEN Permitted
    ELSE IF requirement.kind = "array" THEN RequireAnd(requirement.items, source)
    ELSE PredicateResult(requirement.items[1], source)

\* The names of the children given to thenLiteral.
ChildNames == {<<"x">>, <<"y">>}

NewBuilder(variant) ==
    [done |-> FALSE, variant |-> variant, calls |-> 0,
     requirement |-> RequirementUndefined, required |-> <<>>,
     target |-> 0, arguments |-> {}, threw |-> FALSE]

\* thenLiteral(name, filler): this.arguments.addChild(builder.build())
ThenCall(b, name) == [b EXCEPT !.arguments = @ \cup {name}, !.threw = FALSE]

\* forward(target, modifier): throws when the builder has children.
ForwardCall(b, target) ==
    IF Cardinality(b.arguments) # 0 THEN [b EXCEPT !.threw = TRUE]
    ELSE [b EXCEPT !.target = target, !.threw = FALSE]

\* build(): the node constructed, with the children of the builder added.
BuildCall(b) ==
    [b EXCEPT !.done = TRUE, !.threw = FALSE,
              !.node = [requirement |-> b.requirement, redirect |-> b.target,
                        children |-> b.arguments]]

InitBuilder ==
    /\ heap = NewHeap
    /\ nOps = 0
    /\ last = NoCall
    /\ trip = NoTrip
    /\ pr = NoParse
    /\ ex = NoOutcome
    /\ sg = NoOutcome
    /\ lit = NoOutcome
    /\ bld \in {NewBuilder(variant) : variant \in {"current", "older"}}
    /\ fk = NoOutcome
    /\ cc = NoOutcome
    /\ ob = NoOutcome
    /\ fs = NoOutcome
    /\ am = NoOutcome
    /\ cn = NoOutcome

Building == ~bld.done /\ bld.calls < MaxCalls

\* builder.requires(p): `required` remembers the predicates in call order.
DoRequires ==
    /\ Building
    /\ \E p \in Predicates :
          bld' = [bld EXCEPT !.calls = @ + 1, !.threw = FALSE,
                             !.required = Append(@, p),
                             !.requirement = IF bld.variant = "current"
                                             THEN RequiresCall(@, p)
                                             ELSE RequiresCallOlder(@, p)]
    /\ UNCHANGED <<heap, nOps, last, trip, pr, ex, sg, lit, fk, cc, ob, fs, am, cn>>

\* builder.thenLiteral(name, filler)
DoThen ==
    /\ Building
    /\ \E name \in ChildNames : bld' = [ThenCall(bld, name) EXCEPT !.calls = @ + 1]
    /\ UNCHANGED <<heap, nOps, last, trip, pr, ex, sg, lit, fk, cc, ob, fs, am, cn>>

\* builder.redirect(root)
DoRedirect ==
    /\ Building
    /\ bld' = [ForwardCall(bld, Root) EXCEPT !.calls = @ + 1]
    /\ UNCHANGED <<heap, nOps, last, trip, pr, ex, sg, lit, fk, cc, ob, fs, am, cn>>

\* builder.build()
DoBuild ==
    /\ ~bld.done
    /\ bld' = BuildCall([node |-> <<>>] @@ bld)
    /\ UNCHANGED <<heap, nOps, last, trip, pr, ex, sg, lit, fk, cc, ob, fs, am, cn>>

NextBuilder == DoRequires \/ DoThen \/ DoRedirect \/ DoBuild

SpecBuilder == InitBuilder /\ [][NextBuilder]_vars

\* The failure of the first predicate, in call order, that fails the source.
FirstFailure(required, source) ==
    IF \E i \in 1..Len(required) : source \in required[i].fails
    THEN LET first == CHOOSE i \in 1..Len(required) :
                         /\ source \in required[i].fails
                         /\ \A k \in 1..(i - 1) : source \notin required[k].fails
         IN  PredicateResult(required[first], source)
    ELSE Permitted

\* C14: a node built after requires(r1), ..., requires(rk) is permitted for a
\* source exactly when every ri permits it, and what it reports otherwise is
\* the failure of the first failing ri in call order.
C14_RequiresAccumulates ==
    bld.done =>
        \A source \in Sources :
            IF bld.variant = "current"
            THEN NormalizeRequirement(bld.node.requirement, source)
                     = FirstFailure(bld.required, source)
            ELSE OlderRequirement(bld.node.requirement, source)
                     <=> ~FirstFailure(bld.required, source).failed

\* C15: no built node has both a redirect target and a child.
C15_RedirectHasNoChildren ==
    bld.done => ~(bld.node.redirect # 0 /\ bld.node.children # {})

\* The (node, range) pairs of a context and of its chain of child contexts.
RECURSIVE ChainNodes(_)
ChainNodes(context) ==
    context.nodes \o (IF context.child = <<>> THEN <<>> ELSE ChainNodes(context.child[1]))

\* The text of a range is what its node consumes: a name of the literal (in
\* any letter case), a whole token for an argument.
ConsumedBy(node, range) ==
    LET text == Substring(pr.input, range.start, range.end)
    IN  IF IsLiteral(node)
        THEN \E k \in 1..Len(LiteralNames(node)) : ToLowerCase(text) = LiteralNames(node)[k]
        ELSE /\ \A i \in 1..Len(text) : text[i] # SP
             /\ range.end = Len(pr.input) \/ pr.input[range.end + 1] = SP

\* C16: in a parse result the (node, range) pairs, in order and through the
\* chain of child contexts, have strictly increasing ranges inside the input;
\* each range is the text its node consumed, consecutive ranges are one
\* separator apart, and an argument's recorded range is that of its node.
C16_RangesIncrease ==
    Parsed =>
        LET nodes == ChainNodes(pr.result.context)
            chain == Chain(pr.result.context)
        IN  /\ \A i \in 1..Len(nodes) :
                  /\ 0 <= nodes[i].range.start
                  /\ nodes[i].range.start < nodes[i].range.end
                  /\ nodes[i].range.end <= Len(pr.input)
                  /\ ConsumedBy(nodes[i].node, nodes[i].range)
            /\ \A i \in 2..Len(nodes) :
                  /\ nodes[i].range.start = nodes[i - 1].range.end + 1
                  /\ pr.input[nodes[i].range.start] = SP
            /\ \A c \in 1..Len(chain) :
                  \A a \in 1..Len(chain[c].args) :
                      \E i \in 1..Len(chain[c].nodes) :
                          /\ IsArgument(chain[c].nodes[i].node)
                          /\ Name(chain[c].nodes[i].node) = chain[c].args[a].name
                          /\ chain[c].nodes[i].range = chain[c].args[a].range

\* A redirect was followed and an argument was parsed after it.
C16_Witness ==
    /\ Parsed
    /\ Len(Chain(pr.result.context)) >= 2
    /\ Len(ChainNodes(pr.result.context)) >= 2
    /\ \E i \in 1..Len(ChainNodes(pr.result.context)) :
          /\ i >= 2
          /\ IsArgument(ChainNodes(pr.result.context)[i].node)
    /\ LastContext(pr.result.context).args # <<>>

(***************************************************************************)
(* The fork-capable dispatcher: executeResults over a chain of contexts    *)
(* whose nodes were built by redirect(), fork() or forward().              *)
(***************************************************************************)
MaxChain == 3      \* contexts of a chain handed to the fork-capable executor

\* What a redirect modifier does: null, s => [s], s => both sources,
\* s => [], or a throw.
ForkModifiers == {"none", "same", "both", "nothing", "throws"}

\* What an executor does: null, return, throw, or throw for source 2 only.
ForkCommands == {"none", "succeeds", "throws", "throwsFor2"}

\* The older builder's forward(target, modifier, forks): the fields the
\* built node hands to the context that ends at it.
ForkForward(modifier, forks) == [modifier |-> modifier, forks |-> forks]

\* The older builder's redirect(target, modifier): a single-valued modifier
\* is wrapped into a list, and the node does not fork.
ForkRedirect(modifier) == ForkForward(modifier, FALSE)

\* The older builder's fork(target, modifier).
ForkFork(modifier) == ForkForward(modifier, TRUE)

\* The (modifier, forks) pairs a built node can carry.
ForkNodes ==
    {ForkRedirect(m) : m \in {"none", "same", "throws"}}
        \cup {ForkFork(m) : m \in ForkModifiers}
        \cup {ForkForward(m, f) : m \in ForkModifiers, f \in BOOLEAN}

\* CommandContextBuilder.build(input) of a context whose last node is `node`.
ForkContext(source, command, hasNodes, node, child, level) ==
    [source |-> source, command |-> command, hasNodes |-> hasNodes,
     modifier |-> node.modifier, forks |-> node.forks, child |-> child,
     level |-> level]

\* The chains of at most `depth` contexts a parse for `source` can hand over.
\* A context without nodes has no command, no modifier and no child.  A
\* context with nodes carries the command of its last node (withCommand) and
\* that node's modifier and forks (withNode), whether the input ended at the
\* node or a separator followed it, and has a child when the parse went on
\* from the node's redirect target.
RECURSIVE ForkChainsFrom(_, _, _)
ForkChainsFrom(source, level, depth) ==
    LET ends == {ForkContext(source, c, TRUE, node, <<>>, level) :
                     c \in ForkCommands, node \in ForkNodes}
                  \cup {ForkContext(source, "none", FALSE, ForkForward("none", FALSE),
                                    <<>>, level)}
    IN  IF depth <= 1 THEN ends
        ELSE ends \cup
             {ForkContext(source, c, TRUE, node, <<child>>, level) :
                  c \in ForkCommands, node \in ForkNodes,
                  child \in ForkChainsFrom(source, level + 1, depth - 1)}

\* modifier(context): the sources to go on with, or a throw.
ForkModify(context) ==
    CASE context.modifier = "throws" -> [ok |-> FALSE, sources |-> <<>>]
      [] context.modifier = "both" -> [ok |-> TRUE, sources |-> <<1, 2>>]
      [] context.modifier = "nothing" -> [ok |-> TRUE, sources |-> <<>>]
      [] OTHER -> [ok |-> TRUE, sources |-> <<context.source>>]

\* context.command(context) throws.
ForkCommandThrows(context) ==
    \/ context.command = "throws"
    \/ context.command = "throwsFor2" /\ context.source = 2

\* copyFor(source) of each source, pushed on `next`.
RECURSIVE ForkPush(_, _, _)
ForkPush(next, child, sources) ==
    IF sources = <<>> THEN next
    ELSE ForkPush(Append(next, [child EXCEPT !.source = Head(sources)]), child,
                  Tail(sources))

\* The catch blocks that collect the error.
RethrowsNever(forked) == FALSE

\* The catch blocks: `if (!forked) throw e`.
Rethrows(forked) == ~forked

\* One call made while executing: a modifier or an executor, on a context.
ForkCall(kind, context, threw) ==
    [kind |-> kind, level |-> context.level, source |-> context.source, threw |-> threw]

\* The fork-capable executeResults suspended at `await context.command(context)`
\* for contexts[i]: the executor has been called and has returned.
ForkAwait(original, reader, contexts, i, next, forked, result, consumer, invoked) ==
    [done |-> FALSE, original |-> original, reader |-> reader, contexts |-> contexts,
     i |-> i, next |-> next, forked |-> forked, result |-> result,
     consumer |-> consumer, invoked |-> invoked]

\* The loops of the fork-capable executeResults: the for loop over `contexts`
\* from index i on, then `contexts = next` until nothing is enqueued, up to
\* the await of an executor that returned or to the end of the call.
RECURSIVE ForkWalk(_, _, _, _, _, _, _, _, _, _, _)
ForkWalk(original, reader, contexts, i, next, forked, foundCommand, result, consumer, invoked, fn) ==
    IF i > Len(contexts)
    THEN IF next # <<>>
         THEN ForkWalk(original, reader, next, 1, <<>>, forked, foundCommand, result,
                       consumer, invoked, fn)
         ELSE IF ~foundCommand
         THEN Outcome(UnknownSomethingError("command", reader), result,
                      Append(consumer, Told(original, FALSE, fn)),
                      invoked)
         ELSE Outcome(NoError, result, consumer, invoked)
    ELSE LET context == contexts[i]
         IN  IF context.child # <<>>
             THEN LET child == context.child[1]
                      nowForked == forked \/ context.forks
                  IN  IF child.hasNodes
                      THEN IF context.modifier = "none"
                           THEN ForkWalk(original, reader, contexts, i + 1,
                                         ForkPush(next, child, <<context.source>>),
                                         nowForked, TRUE, result, consumer, invoked, fn)
                           ELSE LET results == ForkModify(context)
                                IN  IF results.ok
                                    THEN ForkWalk(original, reader, contexts, i + 1,
                                                  ForkPush(next, child, results.sources),
                                                  nowForked, TRUE, result, consumer,
                                                  Append(invoked,
                                                         ForkCall("modifier", context,
                                                                  FALSE)), fn)
                                    ELSE IF Rethrows(nowForked)
                                    THEN Outcome([name |-> "Modifier failed", at |-> 0],
                                                 result,
                                                 Append(consumer, Told(context, FALSE, fn)),
                                                 Append(invoked,
                                                        ForkCall("modifier", context,
                                                                 TRUE)))
                                    ELSE ForkWalk(original, reader, contexts, i + 1, next,
                                                  nowForked, TRUE,
                                                  Append(result,
                                                         [result |-> "error",
                                                          value |-> "Modifier failed"]),
                                                  Append(consumer, Told(context, FALSE, fn)),
                                                  Append(invoked,
                                                         ForkCall("modifier", context,
                                                                  TRUE)), fn)
                      ELSE ForkWalk(original, reader, contexts, i + 1, next, nowForked,
                                    foundCommand, result, consumer, invoked, fn)
             ELSE IF context.command # "none"
             THEN IF ForkCommandThrows(context)
                  THEN IF Rethrows(forked)
                       THEN Outcome([name |-> "Execution failed", at |-> 0], result,
                                    Append(consumer, Told(context, FALSE, fn)),
                                    Append(invoked, ForkCall("executor", context, TRUE)))
                       ELSE ForkWalk(original, reader, contexts, i + 1, next, forked, TRUE,
                                     Append(result, [result |-> "error",
                                                     value |-> "Execution failed"]),
                                     Append(consumer, Told(context, FALSE, fn)),
                                     Append(invoked, ForkCall("executor", context, TRUE)), fn)
                  ELSE ForkAwait(original, reader, contexts, i, next, forked, result,
                                 consumer,
                                 Append(invoked, ForkCall("executor", context, FALSE)))
             ELSE ForkWalk(original, reader, contexts, i + 1, next, forked, foundCommand,
                           result, consumer, invoked, fn)

\* The fork-capable executeResults after `await context.command(context)`: the
\* consumer that is set now is told, the value is pushed, and the for loop
\* goes on with the next context.
ForkResume(f, fn) ==
    ForkWalk(f.original, f.reader, f.contexts, f.i + 1, f.next, f.forked, TRUE,
             Append(f.result, [result |-> "success",
                               value |-> f.contexts[f.i].command]),
             Append(f.consumer, Told(f.contexts[f.i], TRUE, fn)),
             f.invoked, fn)

\* A call of the fork-capable executeResults is suspended.
ForkExecuting(f) == ~f.done /\ "contexts" \in DOMAIN f

\* What executeResults reads of a parse: whether input is left unread, how
\* many exceptions were kept, whether the context's range is empty.
ForkParse(context, unread, exceptions, rangeIsEmpty, reader) ==
    [context |-> context, unread |-> unread, exceptions |-> exceptions,
     rangeIsEmpty |-> rangeIsEmpty, reader |-> reader]

\* The fork-capable executeResults(parse), up to its first await.
ExecuteResultsForked(parse, fn) ==
    IF parse.unread
    THEN IF parse.exceptions = 1
         THEN Outcome([name |-> "Parse failed", at |-> parse.reader], <<>>, <<>>, <<>>)
         ELSE IF parse.rangeIsEmpty
         THEN Outcome(UnknownSomethingError("argument", parse.reader), <<>>, <<>>, <<>>)
         ELSE Outcome(UnknownSomethingError("command", parse.reader), <<>>, <<>>, <<>>)
    ELSE ForkWalk(parse.context, parse.reader, <<parse.context>>, 1, <<>>, FALSE, FALSE,
                  <<>>, <<>>, <<>>, fn)

InitFork ==
    /\ heap = NewHeap
    /\ nOps = 0
    /\ last = NoCall
    /\ trip = NoTrip
    /\ pr = NoParse
    /\ ex = NoOutcome
    /\ sg = NoOutcome
    /\ lit = NoOutcome
    /\ bld = NoOutcome
    /\ fk = NoOutcome
    /\ cc = NoOutcome
    /\ ob = NoOutcome
    /\ fs = NoOutcome
    /\ am = NoOutcome
    /\ cn = FirstConsumer

\* dispatcher.executeResults(parse) is called and runs to its first await, or
\* to its end when it awaits nothing.  The parse is one that read a chain
\* whole, or one of a shorter chain that left input unread and kept zero,
\* one or two exceptions.
DoExecuteForked ==
    /\ fk = NoOutcome
    /\ \E source \in Sources, unread \in BOOLEAN :
          \E context \in ForkChainsFrom(source, 1,
                                        IF unread THEN MaxChain - 1 ELSE MaxChain),
             exceptions \in (IF unread THEN 0..2 ELSE {0}) :
              \E parse \in {ForkParse(context, unread, exceptions,
                                      ~context.hasNodes, 0)} :
                  fk' = [parse |-> parse] @@ ExecuteResultsForked(parse, cn)
    /\ UNCHANGED <<heap, nOps, last, trip, pr, ex, sg, lit, bld, cc, ob, fs, am, cn>>

\* The event loop resumes executeResults after the executor it awaits.
DoExecuteForkedResume ==
    /\ ForkExecuting(fk)
    /\ fk' = [parse |-> fk.parse] @@ ForkResume(fk, cn)
    /\ UNCHANGED <<heap, nOps, last, trip, pr, ex, sg, lit, bld, cc, ob, fs, am, cn>>

\* Between two turns of executeResults a callback assigns another function to
\* dispatcher.consumer.
DoSetConsumerForked ==
    /\ ForkExecuting(fk)
    /\ cn = FirstConsumer
    /\ cn' = OtherConsumer
    /\ UNCHANGED <<heap, nOps, last, trip, pr, ex, sg, lit, bld, fk, cc, ob, fs, am>>

NextFork == DoExecuteForked \/ DoExecuteForkedResume \/ DoSetConsumerForked

SpecFork == InitFork /\ [][NextFork]_vars

\* The contexts of a chain, outermost first.
RECURSIVE ForkLevels(_)
ForkLevels(context) ==
    IF context.child = <<>> THEN <<context>>
    ELSE <<context>> \o ForkLevels(context.child[1])

\* `forked` is true at the context at `level`: a context that forks and has a
\* child was traversed no later.
ForkedBy(original, level) ==
    \E j \in 1..level :
        /\ j <= Len(ForkLevels(original))
        /\ ForkLevels(original)[j].forks
        /\ ForkLevels(original)[j].child # <<>>

\* The concatenation of a sequence of sequences.
RECURSIVE ForkConcat(_)
ForkConcat(seqs) ==
    IF seqs = <<>> THEN <<>> ELSE Head(seqs) \o ForkConcat(Tail(seqs))

\* The sources for which the context at `level` is enqueued when no throw
\* ends the execution: each modifier's sources, a throwing modifier's none.
RECURSIVE ForkSources(_, _)
ForkSources(original, level) ==
    IF level = 1 THEN <<original.source>>
    ELSE LET parent == ForkLevels(original)[level - 1]
             before == ForkSources(original, level - 1)
             Modified(s) == IF parent.modifier = "none" THEN <<s>>
                            ELSE ForkModify([parent EXCEPT !.source = s]).sources
         IN  IF ~parent.child[1].hasNodes THEN <<>>
             ELSE ForkConcat([k \in 1..Len(before) |-> Modified(before[k])])

\* The calls of one kind, in the order they were made.
ForkCallsOf(kind) == SelectSeq(fk.invoked, LAMBDA c : c.kind = kind)

\* The consumer was told that the context of call c failed.
ForkToldFailure(c) ==
    \E k \in 1..Len(fk.consumer) :
        /\ fk.consumer[k].context.level = c.level
        /\ fk.consumer[k].context.source = c.source
        /\ ~fk.consumer[k].success

\* C17: in the fork-capable executor, a throw of an executor or modifier
\* before the walk went through a context that forks and has a child leaves
\* executeResults and is the last call made; a throw at or after such a
\* context is kept as an error record, every enqueued context is still
\* executed, and the returned list holds successes and errors in call
\* order.  The consumer is told success=false for the failing context in
\* both cases.
C17_ForkCollectsErrors ==
    (fk.done /\ ~fk.parse.unread) =>
        LET original == fk.parse.context
            levels == ForkLevels(original)
            calls == fk.invoked
            threw == {i \in 1..Len(calls) : calls[i].threw}
            Record(c) == IF c.threw
                         THEN [result |-> "error",
                               value |-> IF c.kind = "executor" THEN "Execution failed"
                                         ELSE "Modifier failed"]
                         ELSE [result |-> "success", value |-> levels[c.level].command]
            recorded == SelectSeq(calls, LAMBDA c : c.kind = "executor" \/ c.threw)
        IN  /\ \A i \in threw :
                  /\ ForkToldFailure(calls[i])
                  /\ IF ForkedBy(original, calls[i].level)
                     THEN fk.thrown = NoError
                     ELSE /\ i = Len(calls)
                          /\ fk.thrown.name = (IF calls[i].kind = "executor"
                                               THEN "Execution failed"
                                               ELSE "Modifier failed")
                          /\ \A k \in 1..Len(fk.result) :
                                 fk.result[k].result = "success"
            /\ (\A i \in threw : ForkedBy(original, calls[i].level)) =>
                  /\ fk.result = [k \in 1..Len(recorded) |-> Record(recorded[k])]
                  /\ levels[Len(levels)].command # "none" =>
                        [k \in 1..Len(ForkCallsOf("executor")) |->
                             ForkCallsOf("executor")[k].source]
                            = ForkSources(original, Len(levels))

\* A context with forks = true was reached no later than the context at
\* `level`, whether or not it has a child.
ForksSeenBy(original, level) ==
    \E j \in 1..level :
        /\ j <= Len(ForkLevels(original))
        /\ ForkLevels(original)[j].forks

\* C17 as stated: once a context with forks = true has been reached, a throw
\* of an executor or modifier is not thrown to the caller.  It fails for a
\* chain whose last context ends at a forking node: that context has no
\* child, `forked` stays false and the throw of its executor leaves
\* executeResults.
C17_CollectsOnceForksSeen ==
    (fk.done /\ ~fk.parse.unread) =>
        \A i \in 1..Len(fk.invoked) :
            (fk.invoked[i].threw /\ ForksSeenBy(fk.parse.context, fk.invoked[i].level))
                => fk.thrown = NoError

\* A forking modifier handed over both sources, the executor failed for one
\* and succeeded for the other, and both outcomes were returned.
C17_Witness ==
    /\ fk.done
    /\ ~fk.parse.unread
    /\ fk.thrown = NoError
    /\ \E i, k \in 1..Len(fk.result) :
          /\ fk.result[i].result = "error"
          /\ fk.result[k].result = "success"
          /\ i < k
    /\ ForkedBy(fk.parse.context, Len(ForkLevels(fk.parse.context)))

\* An executor threw before any forking context was traversed, after
\* another executor of the same round had run.
C17_WitnessThrown ==
    /\ fk.done
    /\ ~fk.parse.unread
    /\ fk.thrown.name = "Execution failed"
    /\ Len(fk.invoked) >= 2
    /\ fk.result # <<>>

(***************************************************************************)
(* Suggestions after an argument failed on its token.                      *)
(***************************************************************************)
\* The argument children that failed to parse or load the token at which
\* the parse stopped.
FailedArguments ==
    {pr.result.exceptions[i].node : i \in
        {k \in 1..Len(pr.result.exceptions) :
            /\ IsArgument(pr.result.exceptions[k].node)
            /\ pr.result.exceptions[k].error.name \in {"Not a user", "Planned failure"}}}

FailedTokenStart == pr.result.reader
FailedTokenEnd == SkipToSpace(pr.input, pr.result.reader)

\* Suggestions were asked with the cursor inside or at the end of a token
\* that an argument child failed on.
InFailedToken ==
    /\ Suggested
    /\ FailedArguments # {}
    /\ FailedTokenStart < sg.cursor
    /\ sg.cursor <= FailedTokenEnd

TypedInToken == Substring(pr.input, FailedTokenStart, sg.cursor)

\* The completions of one child for the typed text: the names of a literal
\* and the examples of an argument that start with it and differ from it.
Completions(child, typed) ==
    IF IsLiteral(child)
    THEN SelectSeq(LiteralNames(child),
                   LAMBDA name : StartsWith(ToLowerCase(name), ToLowerCase(typed))
                                     /\ name # typed)
    ELSE IF CustomSuggestions(child) # "none" THEN <<>>
    ELSE SelectSeq(UserExamples, LAMBDA e : StartsWith(e, typed) /\ e # typed)

RECURSIVE CompletionsOfAll(_, _)
CompletionsOfAll(children, typed) ==
    IF children = <<>> THEN <<>>
    ELSE Completions(Head(children), typed) \o CompletionsOfAll(Tail(children), typed)

\* The children of the suggestion parent that are not omitted for the source.
ListedChildren ==
    SelectSeq(Children(heap, SuggestionParent),
              LAMBDA c : LET failure == CheckRequirement(heap, c, pr.source).failure
                         IN  ~failure.failed \/ failure.showInTree)

SuggestionAnchor ==
    Min(FindSuggestionContext(pr.result.context, sg.cursor).startPos, sg.cursor)

\* C18 as stated: with the cursor inside or at the end of a token that an
\* argument child failed on, the anchor is the start of the token and the
\* suggestions are that argument's completions for the text typed between
\* the start of the token and the cursor.
C18_FailedArgumentCompletions ==
    InFailedToken =>
        /\ SuggestionAnchor = FailedTokenStart
        /\ \E a \in FailedArguments :
              Texts(sg.suggestions.suggestions) = Completions(a, TypedInToken)

\* C18 amended: the anchor is the start of the failed token, the failed
\* argument is a child of the node whose children are asked, and the
\* suggestions are the completions, for the text typed between the start of
\* the token and the cursor, of every child of that node that is not
\* omitted for the source, in the order of children: the failed argument's
\* and those of its siblings.
C18_FailedTokenCompletionsOfAll ==
    InFailedToken =>
        /\ SuggestionAnchor = FailedTokenStart
        /\ \A a \in FailedArguments :
              \E i \in 1..Len(Children(heap, SuggestionParent)) :
                  Children(heap, SuggestionParent)[i] = a
        /\ Texts(sg.suggestions.suggestions)
               = CompletionsOfAll(ListedChildren, TypedInToken)
        /\ \A i \in 1..Len(sg.suggestions.suggestions) :
              sg.suggestions.suggestions[i].range = Between(FailedTokenStart, sg.cursor)

\* The failed token is the second one, a prefix of examples was typed, and
\* the examples that start with it were returned for the failed argument.
C18_Witness ==
    /\ InFailedToken
    /\ FailedTokenStart > 0
    /\ TypedInToken = <<"u", "s", "e">>
    /\ Len(sg.suggestions.suggestions) = 4
    /\ \A i \in 1..Len(sg.suggestions.suggestions) :
          sg.suggestions.suggestions[i].node \in FailedArguments

(***************************************************************************)
(* A suggestion provider that throws.                                      *)
(***************************************************************************)
\* The positions, among the listed children of the suggestion parent, of
\* the children whose listSuggestions throws.
ThrowingListed ==
    {i \in 1..Len(ListedChildren) :
        IsArgument(ListedChildren[i]) /\ CustomSuggestions(ListedChildren[i]) = "throws"}

\* Every child of the suggestion parent could be checked for the source.
ChildrenChecked ==
    \A i \in 1..Len(Children(heap, SuggestionParent)) :
        ~CheckRequirement(heap, Children(heap, SuggestionParent)[i], pr.source).overflow

\* C19: getCompletionSuggestions does not fail because the suggestion
\* provider of a child throws: the child contributes nothing and the
\* suggestions of the other children of the same parent are returned.
C19_ProviderErrorsSwallowed ==
    (Parsed /\ sg.done /\ sg.thrown # "Can't find node before cursor"
        /\ ChildrenChecked /\ ThrowingListed # {}) =>
        /\ sg.thrown = "none"
        /\ Texts(sg.suggestions.suggestions)
               = CompletionsOfAll(ListedChildren, TypedRemainder)
        /\ \A k \in 1..Len(sg.suggestions.suggestions) :
              \A i \in ThrowingListed :
                  sg.suggestions.suggestions[k].node # ListedChildren[i]

\* A child whose provider throws was asked before a sibling, and the
\* sibling's suggestions were returned.
C19_Witness ==
    /\ Suggested
    /\ \E i \in ThrowingListed :
          \E k \in 1..Len(sg.suggestions.suggestions) :
              \E j \in 1..Len(ListedChildren) :
                  /\ i < j
                  /\ sg.suggestions.suggestions[k].node = ListedChildren[j]

(***************************************************************************)
(* Two parse calls that interleave at their await points: the other call   *)
(* may run between two turns of a call.  Reader 0 is a StringReader that   *)
(* the caller passed to both calls; `tree` remembers the tree as it was    *)
(* before the calls.                                                       *)
(***************************************************************************)
\* The inputs of the interleaved calls.
ConcurrentInputs == {
    <<"u", "s", "e", "r">>,
    <<"f", "a", "i", "l">>,
    <<"a", " ", "u", "s", "e", "r">>,
    <<"j", " ", "u", "s", "e", "r">>
}

InitConcurrent ==
    /\ heap \in {RegisterAll(BuiltHeap, script) : script \in Scripts}
    /\ nOps = 0
    /\ last = NoCall
    /\ trip = NoTrip
    /\ pr = NoParse
    /\ ex = NoOutcome
    /\ sg = NoOutcome
    /\ lit = NoOutcome
    /\ bld = NoOutcome
    /\ fk = NoOutcome
    /\ cc = [shared |-> 0, calls |-> <<Idle, Idle>>, tree |-> heap]
    /\ ob = NoOutcome
    /\ fs = NoOutcome
    /\ am = NoOutcome
    /\ cn = NoOutcome

\* dispatcher.parse(ctx, command, source), not awaited by the caller.
DoStartParse(c) ==
    /\ cc.calls[c].phase = "idle"
    /\ \E command \in ConcurrentInputs, source \in Sources, own \in BOOLEAN :
          /\ own \/ \A d \in {1, 2} \ {c} :
                       (cc.calls[d].phase # "idle" /\ ~cc.calls[d].own)
                           => cc.calls[d].input = command
          /\ LET m == StartParse(heap, cc.shared, command, source, own)
             IN  cc' = [cc EXCEPT !.shared = m.shared, !.calls[c] = m.call]
    /\ UNCHANGED <<heap, nOps, last, trip, pr, ex, sg, lit, bld, fk, ob, fs, am, cn>>

\* The event loop resumes call c at the await it is suspended in: one turn
\* runs the call from that await to the next.
DoResumeParse(c) ==
    /\ cc.calls[c].phase # "idle"
    /\ Resumable(cc.calls[c])
    /\ LET m0 == [shared |-> cc.shared,
                  call |-> [cc.calls[c] EXCEPT
                               !.overlapped =
                                   @ \/ \E d \in {1, 2} \ {c} : Loading(cc.calls[d])]]
           m == Resume(heap, m0)
       IN  cc' = [cc EXCEPT !.shared = m.shared, !.calls[c] = m.call]
    /\ UNCHANGED <<heap, nOps, last, trip, pr, ex, sg, lit, bld, fk, ob, fs, am, cn>>

NextConcurrent == \E c \in {1, 2} : DoStartParse(c) \/ DoResumeParse(c)

SpecConcurrent == InitConcurrent /\ [][NextConcurrent]_vars

\* C20: two parse calls that interleave at their await points, on a tree
\* that is not mutated, each return the result that the call returns when
\* it runs alone; the tree and the reader given to both are left as they
\* were.
C20_InterleavedParsesAgree ==
    /\ \A c \in {1, 2} :
          cc.calls[c].phase = "done" =>
              cc.calls[c].result = Parse(heap, cc.calls[c].input, cc.calls[c].source)
    /\ cc.shared = 0
    /\ heap = cc.tree

\* Both calls have returned, each ran while the other was suspended in the
\* load of an argument, and they did not parse the same thing.
C20_Witness ==
    /\ \A c \in {1, 2} :
          /\ cc.calls[c].phase = "done"
          /\ cc.calls[c].overlapped
          /\ ~cc.calls[c].result.thrown
          /\ LastContext(cc.calls[c].result.context).args # <<>>
    /\ cc.calls[1].input # cc.calls[2].input
    /\ cc.calls[1].source # cc.calls[2].source

(***************************************************************************)
(* The order in which siblings are attempted.                              *)
(***************************************************************************)
\* The argument children of the root that the source may use.
RootArguments ==
    {heap.arguments[Root][i] : i \in
        {k \in 1..Len(heap.arguments[Root]) :
            ~FailsRequirement(heap.arguments[Root][k], pr.source)}}

\* The whole input is one token that an argument child of the root parsed
\* completely and without error.
OneArgumentParsed ==
    /\ Consumed
    /\ pr.result.exceptions = <<>>
    /\ pr.result.context.child = <<>>
    /\ Len(pr.result.context.nodes) = 1
    /\ IsArgument(pr.result.context.nodes[1].node)

\* C21: when several argument children parse the same input completely and
\* without error, the result is that of the child with the smallest name,
\* whatever the order in which they were added.
C21_SmallestArgumentFirst ==
    OneArgumentParsed =>
        \A a \in RootArguments :
            LocaleCompare(Name(pr.result.context.nodes[1].node), Name(a)) <= 0

(***************************************************************************)
(* The potentials of the first level of a parse, and which one is          *)
(* returned.                                                               *)
(***************************************************************************)
\* What the attempt of one relevant child of the root leaves: nothing when
\* the child is skipped or fails, else the parse result it ends in and
\* whether a redirect was followed to get it.
RootAttempt(child) ==
    LET failure == CheckRequirement(heap, child, pr.source).failure
        tried == TryParse(child, pr.input, 0, NewContext(pr.source, Root, 0))
        context == WithCommand(tried.context, heap.command[child])
        target == IF Redirect(child) # 0 THEN Redirect(child) ELSE child
        nested == ParseNodes(heap, target, pr.input, tried.cursor + 1,
                             IF Redirect(child) # 0
                             THEN NewContext(pr.source, target, tried.cursor + 1)
                             ELSE context)
    IN  IF (failure.failed /\ ~failure.reason) \/ ~tried.ok THEN <<>>
        ELSE IF ~CanRead(pr.input, tried.cursor, IF Redirect(child) = 0 THEN 2 ELSE 1)
        THEN <<[parse |-> ParseResults(context, tried.cursor, <<>>),
                redirected |-> FALSE]>>
        ELSE IF Redirect(child) # 0
        THEN <<[parse |-> ParseResults(WithChild(context, nested.context),
                                       nested.reader, nested.exceptions),
                redirected |-> TRUE]>>
        ELSE <<[parse |-> nested, redirected |-> FALSE]>>

\* The surviving attempts of the root level, in attempt order.
RECURSIVE AttemptsOf(_)
AttemptsOf(children) ==
    IF children = <<>> THEN <<>>
    ELSE RootAttempt(Head(children)) \o AttemptsOf(Tail(children))

RootAttempts == AttemptsOf(GetRelevant(heap, Root, pr.input, 0))

RootPotentials == [i \in 1..Len(RootAttempts) |-> RootAttempts[i].parse]

\* Leftover input weighs more than recorded errors.
PotentialRank(p) ==
    (IF CanReadAnything(pr.input, p.reader) THEN 2 ELSE 0)
        + (IF p.exceptions # <<>> THEN 1 ELSE 0)

\* The first potential, in attempt order, that no other one precedes.
FirstMinimal(potentials) ==
    CHOOSE i \in 1..Len(potentials) :
        /\ \A j \in 1..Len(potentials) :
              PotentialRank(potentials[i]) <= PotentialRank(potentials[j])
        /\ \A j \in 1..(i - 1) :
              PotentialRank(potentials[i]) < PotentialRank(potentials[j])

\* Nothing survived: the context parse was given, the reader where it was,
\* and the errors of the children of this level.
NothingSurvived ==
    /\ pr.result.context = NewContext(pr.source, Root, 0)
    /\ pr.result.reader = 0
    /\ \A k \in 1..Len(pr.result.exceptions) :
          \E i \in 1..Len(GetRelevant(heap, Root, pr.input, 0)) :
              GetRelevant(heap, Root, pr.input, 0)[i] = pr.result.exceptions[k].node

\* C22 as stated: when an attempt of the first level survives, parse
\* returns the first one in attempt order among those that are minimal (no
\* leftover input first, then no errors); when none survives it returns
\* the context it was given, the reader where it was, and the errors of
\* the children of this level.
C22_TieBreak ==
    Parsed =>
        IF RootPotentials # <<>>
        THEN /\ pr.result = RootPotentials[FirstMinimal(RootPotentials)]
             /\ (\E i \in 1..Len(RootPotentials) :
                     ~CanReadAnything(pr.input, RootPotentials[i].reader))
                    => ~CanReadAnything(pr.input, pr.result.reader)
             /\ (\E i \in 1..Len(RootPotentials) :
                     /\ ~CanReadAnything(pr.input, RootPotentials[i].reader)
                     /\ RootPotentials[i].exceptions = <<>>)
                    => pr.result.exceptions = <<>>
        ELSE NothingSurvived

\* The attempts before the first one that followed a redirect, or all.
BeforeRedirect ==
    IF \E i \in 1..Len(RootAttempts) : RootAttempts[i].redirected
    THEN SubSeq(RootPotentials, 1,
                (CHOOSE i \in 1..Len(RootAttempts) :
                     /\ RootAttempts[i].redirected
                     /\ \A j \in 1..(i - 1) : ~RootAttempts[j].redirected) - 1)
    ELSE RootPotentials

\* C22 amended: the first surviving attempt that follows a redirect ends
\* the search and its result is returned whatever the earlier potentials
\* are; without one, parse returns the first potential in attempt order
\* among the minimal ones (no leftover input first, then no errors), so a
\* potential that consumed all input, without errors if there is one, is
\* returned when there is one; when no attempt survives it returns the
\* context it was given, the reader where it was and this level's errors.
C22_TieBreakUnlessRedirect ==
    Parsed =>
        IF Len(BeforeRedirect) < Len(RootPotentials)
        THEN pr.result = RootPotentials[Len(BeforeRedirect) + 1]
        ELSE IF RootPotentials # <<>>
        THEN /\ pr.result = RootPotentials[FirstMinimal(RootPotentials)]
             /\ (\E i \in 1..Len(RootPotentials) :
                     ~CanReadAnything(pr.input, RootPotentials[i].reader))
                    => ~CanReadAnything(pr.input, pr.result.reader)
             /\ (\E i \in 1..Len(RootPotentials) :
                     /\ ~CanReadAnything(pr.input, RootPotentials[i].reader)
                     /\ RootPotentials[i].exceptions = <<>>)
                    => pr.result.exceptions = <<>>
        ELSE NothingSurvived

\* Three attempts survived, the first with leftover input and errors, and a
\* later one was returned.
C22_Witness ==
    /\ Parsed
    /\ Len(RootPotentials) >= 3
    /\ PotentialRank(RootPotentials[1]) = 3
    /\ FirstMinimal(RootPotentials) > 1
    /\ BeforeRedirect = RootPotentials
    /\ pr.result = RootPotentials[FirstMinimal(RootPotentials)]

\* The first attempt left input and errors, a later one left input only and
\* was returned.
C22_WitnessErrors ==
    /\ Parsed
    /\ Len(RootPotentials) >= 2
    /\ PotentialRank(RootPotentials[1]) = 3
    /\ PotentialRank(pr.result) = 2

(***************************************************************************)
(* The executor a parse selects.                                           *)
(***************************************************************************)
\* A full parse that followed no redirect and matched at least one node.
FullParse ==
    /\ Consumed
    /\ pr.result.context.child = <<>>
    /\ pr.result.context.nodes # <<>>

\* The deepest matched node.
LastMatched == pr.result.context.nodes[Len(pr.result.context.nodes)].node

\* C23: after a full parse without redirects the selected executor is that of
\* the last matched node, even when that node has none: executeResults runs
\* that executor once and nothing else, returning one success record when it
\* returns; when the last matched node has no executor nothing is run, no
\* ancestor's executor either, and unknown-command is thrown.
C23_DeepestExecutor ==
    FullParse =>
        /\ pr.result.context.command = heap.command[LastMatched]
        /\ ex.done =>
              IF heap.command[LastMatched] # 0
              THEN /\ ex.invoked = <<heap.command[LastMatched]>>
                   /\ heap.command[LastMatched] \notin ThrowingCommands =>
                         /\ ex.thrown = NoError
                         /\ ex.result = <<[result |-> "success",
                                           value |-> heap.command[LastMatched]]>>
              ELSE /\ ex.invoked = <<>>
                   /\ ex.result = <<>>
                   /\ ex.thrown = UnknownSomethingError("command", pr.result.reader)

\* The last of several matched nodes has no executor although an earlier one
\* has, and executeResults ran.
C23_Witness ==
    /\ FullParse
    /\ ex.done
    /\ heap.command[LastMatched] = 0
    /\ \E i \in 1..Len(pr.result.context.nodes) :
          heap.command[pr.result.context.nodes[i].node] # 0
    /\ ex.invoked = <<>>

\* The last of several matched nodes has an executor and it ran.
C23_WitnessRan ==
    /\ FullParse
    /\ ex.done
    /\ Len(pr.result.context.nodes) > 1
    /\ ex.invoked = <<heap.command[LastMatched]>>
    /\ ex.thrown = NoError

(***************************************************************************)
(* The failures of the children of one level.                              *)
(***************************************************************************)
\* The relevant children of the root that parseNodes does not skip.
RootTried ==
    SelectSeq(GetRelevant(heap, Root, pr.input, 0),
              LAMBDA c : LET failure == CheckRequirement(heap, c, pr.source).failure
                         IN  ~(failure.failed /\ ~failure.reason))

\* What the try block makes of each of them.
RootTries ==
    [i \in 1..Len(RootTried) |->
        TryParse(RootTried[i], pr.input, 0, NewContext(pr.source, Root, 0))]

\* C24: parse does not throw because a child fails (it throws only when a
\* requirement check overflows the stack); the failure of each child is
\* recorded under that child, and the siblings after it are attempted: when
\* all fail, the error map holds the error of each one in attempt order,
\* and when some survive, what is returned is one of their results.
C24_FailuresAreRecorded ==
    (pr.phase = "parsed" /\ ~pr.changed) =>
        /\ pr.result.thrown =>
              \E n \in NodeIds : CheckRequirement(heap, n, pr.source).overflow
        /\ (~pr.result.thrown /\ \A i \in 1..Len(RootTries) : ~RootTries[i].ok) =>
              /\ pr.result.context = NewContext(pr.source, Root, 0)
              /\ pr.result.reader = 0
              /\ pr.result.exceptions =
                     [i \in 1..Len(RootTried) |->
                         [node |-> RootTried[i], error |-> RootTries[i].error]]
        /\ (~pr.result.thrown /\ \E i \in 1..Len(RootTries) : RootTries[i].ok) =>
              \E i \in 1..Len(RootPotentials) : pr.result = RootPotentials[i]

\* Three siblings failed one after the other, for the type's parse or for the
\* load, and the error of each was recorded.
C24_Witness ==
    /\ Parsed
    /\ Len(RootTried) >= 3
    /\ Len(pr.result.exceptions) = Len(RootTried)
    /\ \A i \in 1..Len(RootTries) : ~RootTries[i].ok
    /\ pr.result.exceptions[1].error.name \in {"Not a user", "Planned failure"}

(***************************************************************************)
(* A parse call watched on its objects.  The caller passes a string, or a  *)
(* StringReader that it has put at a cursor of its choice and that it goes *)
(* on holding: between two turns of the call a callback of the caller may  *)
(* assign the cursor of that reader.  When the call has settled the caller *)
(* holds the context builder of the result and may call withSource on it.  *)
(***************************************************************************)
\* The largest cursor of the reader given to parse.
MaxStart == 2

\* How often a callback moves the caller's reader during one parse.
MaxMoves == 1

\* The inputs during whose parse a callback moves the caller's reader.
MovedInputs == {
    <<"u", "s", "e", "r", SP, "u", "s", "e", "r">>,
    <<"u", "s", "e", "r", SP, "a">>,
    <<"a", SP, "u", "s", "e", "r">>,
    <<"j", SP, "u", "s", "e", "r">>,
    <<"d", SP, "x">>
}

\* withSource(source)
WithSource(context, source) == [context EXCEPT !.source = source]

InitObjects ==
    /\ heap \in {RegisterAll(BuiltHeap, script) : script \in Scripts}
    /\ nOps = 0
    /\ last = NoCall
    /\ trip = NoTrip
    /\ pr = NoParse
    /\ ex = NoOutcome
    /\ sg = NoOutcome
    /\ lit = NoOutcome
    /\ bld = NoOutcome
    /\ fk = NoOutcome
    /\ cc = NoOutcome
    /\ ob = NoOutcome
    /\ fs = NoOutcome
    /\ am = NoOutcome
    /\ cn = NoOutcome

\* A parse call watched on its objects is in progress.
ParsingOn(o) == ~o.done /\ "call" \in DOMAIN o

\* dispatcher.parse(ctx, command, source) is called, with command a string or
\* a reader at `start`, and runs to its first await.
DoParseOn ==
    /\ ob = NoOutcome
    /\ \E command \in Inputs, source \in Sources, own \in BOOLEAN, start \in 0..MaxStart :
          /\ own => start = 0
          /\ start <= Len(command)
          /\ \E m \in {StartParse(heap, start, command, source, own)} :
                ob' = [done |-> FALSE, input |-> command, source |-> source,
                       start |-> start, shared |-> m.shared, call |-> m.call,
                       moves |-> 0]
    /\ UNCHANGED <<heap, nOps, last, trip, pr, ex, sg, lit, bld, fk, cc, fs, am, cn>>

\* One turn of the event loop: the call resumes after what it awaits.
DoResumeOn ==
    /\ ParsingOn(ob)
    /\ Resumable(ob.call)
    /\ \E m \in {Resume(heap, [shared |-> ob.shared, call |-> ob.call])} :
          ob' = IF m.call.phase = "done"
                THEN [done |-> TRUE, input |-> ob.input, source |-> ob.source,
                      start |-> ob.start, own |-> ob.call.own, moves |-> ob.moves,
                      thrown |-> m.call.result.thrown, log |-> m.call.log,
                      result |-> m.call.result, sourced |-> FALSE]
                ELSE [ob EXCEPT !.shared = m.shared, !.call = m.call]
    /\ UNCHANGED <<heap, nOps, last, trip, pr, ex, sg, lit, bld, fk, cc, fs, am, cn>>

\* Between two turns of the call a callback of the caller assigns the cursor
\* of the reader that it passed to parse.
DoMoveReader ==
    /\ ParsingOn(ob)
    /\ ~ob.call.own
    /\ ob.input \in MovedInputs
    /\ ob.moves < MaxMoves
    /\ \E cursor \in 0..Len(ob.input) :
          /\ cursor # ob.shared
          /\ ob' = [ob EXCEPT !.shared = cursor, !.moves = @ + 1,
                              !.call.log = Append(@, [kind |-> "move",
                                                      cursor |-> cursor])]
    /\ UNCHANGED <<heap, nOps, last, trip, pr, ex, sg, lit, bld, fk, cc, fs, am, cn>>

\* The caller calls result.context.withSource(source) on the builder that the
\* settled call handed to it.
DoWithSource ==
    /\ ob.done
    /\ ~ob.thrown
    /\ ~ob.sourced
    /\ \E source \in Sources :
          /\ source # ob.result.context.source
          /\ ob' = [ob EXCEPT !.result.context = WithSource(@, source),
                              !.sourced = TRUE]
    /\ UNCHANGED <<heap, nOps, last, trip, pr, ex, sg, lit, bld, fk, cc, fs, am, cn>>

NextObjects == DoParseOn \/ DoResumeOn \/ DoMoveReader \/ DoWithSource

SpecObjects == InitObjects /\ [][NextObjects]_vars

\* The log of the call, in progress or settled.
ObjectsLog ==
    IF ob.done THEN ob.log ELSE IF ParsingOn(ob) THEN ob.call.log ELSE <<>>

\* The cursor that the caller gave its reader last before the k-th entry of
\* the log, or else `cursor`.
MovedTo(log, k, cursor) ==
    LET moves == {j \in 1..(k - 1) : log[j].kind = "move"}
    IN  IF moves = {} THEN cursor
        ELSE log[CHOOSE j \in moves : \A i \in moves : i <= j].cursor

FirstToken == Substring(pr.input, 0, SkipToSpace(pr.input, 0))

\* The literal children of the root that the token names, ignoring case.
NamedLiterals ==
    {l \in {heap.literals[Root][i] : i \in 1..Len(heap.literals[Root])} :
        \E k \in 1..Len(LiteralNames(l)) :
            ToLowerCase(LiteralNames(l)[k]) = ToLowerCase(FirstToken)}

\* C26: getRelevant returns exactly the one literal child whose name or
\* alias the token at the cursor equals, ignoring case, and no argument
\* child; when the token names no literal child it returns all the argument
\* children and no literal child.
C26_RelevantLiteralOrArguments ==
    pr.phase = "parsed" =>
        IF NamedLiterals # {}
        THEN \E l \in NamedLiterals : GetRelevant(heap, Root, pr.input, 0) = <<l>>
        ELSE GetRelevant(heap, Root, pr.input, 0) = heap.arguments[Root]

(***************************************************************************)
(* findSuggestionContext on the context of a settled parse: the parse of a *)
(* string, or of a reader that the caller put at `start` and may have      *)
(* moved while the call was suspended.                                     *)
(***************************************************************************)
InitFind ==
    /\ heap \in {RegisterAll(BuiltHeap, script) : script \in Scripts}
    /\ nOps = 0
    /\ last = NoCall
    /\ trip = NoTrip
    /\ pr = NoParse
    /\ ex = NoOutcome
    /\ sg = NoOutcome
    /\ lit = NoOutcome
    /\ bld = NoOutcome
    /\ fk = NoOutcome
    /\ cc = NoOutcome
    /\ ob = NoOutcome
    /\ fs = NoOutcome
    /\ am = NoOutcome
    /\ cn = NoOutcome

\* result.context.findSuggestionContext(cursor), result being what the parse
\* call settled with.
DoFindSuggestionContext ==
    /\ ob.done
    /\ ~ob.thrown
    /\ ~fs.done
    /\ \E cursor \in 0..Len(ob.input) :
          fs' = [done |-> TRUE, input |-> ob.input, start |-> ob.start,
                 cursor |-> cursor, context |-> ob.result.context,
                 found |-> FindSuggestionContext(ob.result.context, cursor)]
    /\ UNCHANGED <<heap, nOps, last, trip, pr, ex, sg, lit, bld, fk, cc, ob, am, cn>>

NextFind == DoParseOn \/ DoResumeOn \/ DoMoveReader \/ DoFindSuggestionContext

SpecFind == InitFind /\ [][NextFind]_vars

\* The context of the chain that the cursor falls to: the first one whose
\* range does not end before the cursor, else the last one.
RECURSIVE ContextAt(_, _)
ContextAt(context, cursor) ==
    IF context.range.end < cursor /\ context.child # <<>>
    THEN ContextAt(context.child[1], cursor)
    ELSE context

\* The recorded nodes of a context whose range holds the cursor.
HoldingCursor(context, cursor) ==
    {k \in 1..Len(context.nodes) :
        /\ context.nodes[k].range.start <= cursor
        /\ cursor <= context.nodes[k].range.end}

Examples(node) ==
    IF IsLiteral(node) THEN <<Name(node)>>
    ELSE IF IsArgument(node) THEN UserExamples
    ELSE <<>>

\* What ArgumentCommandNode.isValidInput resolves to: type.parse does not
\* throw and stops at the end of the input or before a space.
ArgumentIsValidInput(input) ==
    LET read == ReadString(input, 0)
    IN  /\ Len(read.text) >= UserMinLength
        /\ Len(read.text) <= UserMaxLength
        /\ (~CanReadAnything(input, read.cursor) \/ Peek(input, read.cursor) = SP)

\* sibling.isValidInput(ctx, input), as the caller gets it.
IsValidInput(node, input) ==
    IF IsLiteral(node)
    THEN [promise |-> FALSE, value |-> LiteralIsValidInput(LiteralNames(node), input)]
    ELSE [promise |-> TRUE, value |-> ArgumentIsValidInput(input)]

\* if (x): an object, such as a Promise, is truthy.
Truthy(x) == x.promise \/ x.value

\* The inner loop over child.examples: the Set of matches, in insertion order.
AmbiguityMatches(child, sibling) ==
    SelectSeq(Examples(child), LAMBDA input : Truthy(IsValidInput(sibling, input)))

\* The loop over the siblings of one child.
RECURSIVE SiblingReports(_, _, _)
SiblingReports(this, child, siblings) ==
    IF siblings = <<>> THEN <<>>
    ELSE LET sibling == Head(siblings)
             matches == AmbiguityMatches(child, sibling)
         IN  (IF child # sibling /\ matches # <<>>
              THEN <<[parent |-> this, child |-> child, sibling |-> sibling,
                      inputs |-> matches]>>
              ELSE <<>>)
             \o SiblingReports(this, child, Tail(siblings))

\* findAmbiguities(ctx, consumer): the calls of the consumer, in order.
RECURSIVE FindAmbiguities(_, _)
RECURSIVE ChildReports(_, _, _)
FindAmbiguities(h, this) == ChildReports(h, this, Children(h, this))

ChildReports(h, this, children) ==
    IF children = <<>> THEN <<>>
    ELSE SiblingReports(this, Head(children), Children(h, this))
         \o FindAmbiguities(h, Head(children))
         \o ChildReports(h, this, Tail(children))

\* The commands registered before findAmbiguities is asked: up to
\* MaxRegistered different ones, in any order.
MaxRegistered == 2
Registered == {2, 5, 8, 9, 11, 12, 13, 14, 15, 16, 19, 21}

RECURSIVE Registrations(_)
Registrations(n) ==
    IF n = 0 THEN {<<>>}
    ELSE LET shorter == Registrations(n - 1)
         IN  shorter \cup {Append(s, c) : s \in shorter,
                                          c \in Registered}

InitAmbiguities ==
    /\ heap \in {RegisterAll(BuiltHeap, s) : s \in Registrations(MaxRegistered)}
    /\ nOps = 0
    /\ last = NoCall
    /\ trip = NoTrip
    /\ pr = NoParse
    /\ ex = NoOutcome
    /\ sg = NoOutcome
    /\ lit = NoOutcome
    /\ bld = NoOutcome
    /\ fk = NoOutcome
    /\ cc = NoOutcome
    /\ ob = NoOutcome
    /\ fs = NoOutcome
    /\ am = NoOutcome
    /\ cn = NoOutcome

\* dispatcher.root.findAmbiguities(ctx, consumer)
DoFindAmbiguities ==
    /\ ~am.done
    /\ am' = [done |-> TRUE, reports |-> FindAmbiguities(heap, Root)]
    /\ UNCHANGED <<heap, nOps, last, trip, pr, ex, sg, lit, bld, fk, cc, ob, fs, cn>>

NextAmbiguities == DoFindAmbiguities

SpecAmbiguities == InitAmbiguities /\ [][NextAmbiguities]_vars

\* The nodes of the tree under the root.
RECURSIVE Descendants(_, _)
Descendants(h, this) ==
    {this} \cup UNION {Descendants(h, Children(h, this)[i]) :
                          i \in 1..Len(Children(h, this))}

\* The examples of child that sibling's isValidInput accepts.
Accepted(child, sibling) ==
    {Examples(child)[i] : i \in {k \in 1..Len(Examples(child)) :
                                    IsValidInput(sibling, Examples(child)[k]).value}}

\* C28: findAmbiguities calls the consumer with (parent, child, sibling,
\* inputs) for an ordered pair of distinct children of a node of the tree
\* if and only if sibling's isValidInput accepts one of child's examples,
\* inputs being exactly the accepted examples, whether the sibling is a
\* literal or an argument node.
C28_ReportsAcceptedExamples ==
    am.done =>
        \A parent \in Descendants(heap, Root) :
            \A i, j \in 1..Len(Children(heap, parent)) :
                LET child == Children(heap, parent)[i]
                    sibling == Children(heap, parent)[j]
                    told == {k \in 1..Len(am.reports) :
                                /\ am.reports[k].parent = parent
                                /\ am.reports[k].child = child
                                /\ am.reports[k].sibling = sibling}
                IN  i # j =>
                        /\ told # {} <=> Accepted(child, sibling) # {}
                        /\ \A k \in told :
                              {am.reports[k].inputs[n] :
                                  n \in 1..Len(am.reports[k].inputs)}
                                  = Accepted(child, sibling)

(***************************************************************************)
(* Termination of checkRequirement.                                        *)
(***************************************************************************)
\* C29: checkRequirement returns for every command graph and source, redirect
\* cycles included, so that no parse and no getCompletionSuggestions ends in
\* a stack overflow.
C29_CheckRequirementTerminates ==
    /\ \A n \in NodeIds : ~CheckRequirement(heap, n, 1).overflow
    /\ \A n \in NodeIds : ~CheckRequirement(heap, n, 2).overflow
    /\ pr.phase = "parsed" => ~pr.result.thrown
    /\ sg.done => sg.thrown # "stack overflow"

(***************************************************************************)
(* The sub-indexes of a node against its children map.                     *)
(***************************************************************************)
Elements(seq) == {seq[i] : i \in 1..Len(seq)}

\* C30: after any sequence of addChild and removeChild calls the literal
\* index and the argument index of every node are the partition of its
\* children map: the literal children in the one, the argument children in
\* the other, no node that is not a child in either; so getRelevant returns
\* children only.
C30_IndexesPartitionChildren ==
    \A this \in NodeIds :
        /\ Elements(heap.literals[this])
               = {c \in Elements(Children(heap, this)) : IsLiteral(c)}
        /\ Elements(heap.arguments[this])
               = {c \in Elements(Children(heap, this)) : IsArgument(c)}
        /\ \A w \in Words :
              Elements(GetRelevant(heap, this, w, 0)) \subseteq Elements(Children(heap, this))

====
